---- MODULE Spec2Model ----
(***************************************************************************)
(* Model of the airspace-visualizer backend.                               *)
(*                                                                         *)
(*  - the historical contact store (radar_database.py, class RadarDatabase)*)
(*    : aircraft_contacts, aircraft_summary, flight_events, the event      *)
(*    detector and cleanup_old_data;                                       *)
(*  - the semantic index of ai_server.py (globals index / metadata,        *)
(*    rebuild_index, its readers /ask, /chat, /debug and /rebuild);        *)
(*  - the AIS consumer and vessel map (ais_stream_client.py);              *)
(*  - the SSR code catalog (ssr_code_parser.py) and the airspace lookup    *)
(*    (airspace_parser.py);                                                *)
(*  - the aircraft proxy of airspace_server.py (proxy_aircraft), its NOTAM *)
(*    feed (fetch_live_notams, filter_notams_by_location, get_notams) and  *)
(*    the lock of the store (RadarDatabase.get_connection).                *)
(***************************************************************************)
EXTENDS Integers, Sequences, FiniteSets, TLC

VARIABLES
    now,        \* the last value time.time() returned, seconds
    nextId,     \* next AUTOINCREMENT id of aircraft_contacts
    contacts,   \* committed rows of aircraft_contacts, in rowid order
    summary,    \* committed rows of aircraft_summary, keyed by hex
    events,     \* committed rows of flight_events, in rowid order
    last,       \* the last operation on the store: what it returned, the step at
                \* which it failed, the cutoff it used
    index,      \* ai_server global `index`: the vectors, one text id per vector
    metadata,   \* ai_server global `metadata`: the texts
    rb,         \* per rebuilding thread: position in rebuild_index, its locals, and
                \* the live pair it found when its cycle began
    published,  \* the pair left by the last rebuild cycle that ran to its end
    seen,       \* what the last observer (/ask, /chat, /debug, /rebuild) read
    running,    \* AISStreamClient.running
    cons,       \* the consumer threads start_connection has started, in order:
                \* position in _connect_websocket, retry_count, and the failures
                \* counted since the last connection and since the last receive
    vessels,    \* AISStreamClient.vessels, in insertion order
    aisOut,     \* what the last get_status or get_vessels_in_range returned
    answer,     \* what the last /ask or /chat request returned
    ssrParser,  \* the SSRCodeParser the server built: the catalog lines it was
                \* given, its codes, categories and alert_codes
    ssrOut,     \* what the last code lookup returned, or the ssr data the proxy
                \* attached to the last aircraft
    zones,      \* UKAirspaceParser.zones, in the order they were parsed
    found,      \* what the last find_airspace_for_position returned
    tick,       \* per serving thread: position in proxy_aircraft, the snapshot it
                \* fetched, the loop index, the enhanced_aircraft list so far,
                \* the step that raised in each round, and its calls of
                \* store_aircraft_contact: what was handed over, what came back
    fetched,    \* number of snapshots fetched from the receiver so far
    response,   \* what the proxy_aircraft request that returned last answered,
                \* until the next request begins
    notam_cache,\* airspace_server global notam_cache: data and expires
    notamOut,   \* the last /api/notams request: what it was given, whether it
                \* contacted the archive, and what it returned
    lock,       \* RadarDatabase.lock: the thread that holds it, or "free"
    ops,        \* per thread: the store operation it is calling and how far it is
    scan,       \* the consumer inside _process_ais_message and a request inside
                \* get_vessels_in_range: how far each is and its locals; and the
                \* records the map has held between messages
    derived     \* what the last call of analyze_flight_phase or of
                \* validate_aircraft_data was given and what it returned

vars == <<now, nextId, contacts, summary, events, last,
          index, metadata, rb, published, seen,
          running, cons, vessels, aisOut,
          answer, ssrParser, ssrOut, zones, found,
          tick, fetched, response, notam_cache, notamOut, lock, ops, derived, scan>>

storeVars == <<nextId, contacts, summary, events, last>>
dbVars == <<now, nextId, contacts, summary, events, last>>
aiVars == <<index, metadata, rb, published, seen>>
aisVars == <<running, cons, vessels, aisOut>>

askVars == <<answer>>
ssrVars == <<ssrParser, ssrOut>>
airVars == <<zones, found>>
tickVars == <<tick, fetched, response>>
notamVars == <<notam_cache, notamOut>>
lockVars == <<lock, ops>>
statusVars == <<derived>>
scanVars == <<scan>>
notTick == <<aiVars, aisVars, askVars, ssrVars, airVars, notamVars, lockVars, statusVars, scanVars>>
notNotam == <<storeVars, aiVars, aisVars, askVars, ssrVars, airVars, tickVars, lockVars, statusVars, scanVars>>
notStatus == <<dbVars, aiVars, aisVars, askVars, ssrVars, airVars, tickVars, notamVars,
               lockVars, scanVars>>
notScan == <<dbVars, aiVars, running, cons, aisOut, askVars, ssrVars, airVars, tickVars,
             notamVars, lockVars, statusVars>>
notLock == <<dbVars, aiVars, aisVars, askVars, ssrVars, airVars, tickVars, notamVars, statusVars, scanVars>>

\* what the operations of the store, of the semantic index, of the AIS client,
\* of the two retrieval endpoints, of the SSR catalog and of the airspace
\* lookup leave alone
notStore == <<aiVars, aisVars, askVars, ssrVars, airVars, tickVars, notamVars, lockVars, statusVars, scanVars>>
notIndex == <<dbVars, aisVars, askVars, ssrVars, airVars, tickVars, notamVars, lockVars, statusVars, scanVars>>
notAis == <<storeVars, aiVars, askVars, ssrVars, airVars, tickVars, notamVars, lockVars, statusVars, scanVars>>
notAsk == <<dbVars, aisVars, ssrVars, airVars, tickVars, notamVars, lockVars, statusVars, scanVars>>
notSsr == <<dbVars, aiVars, aisVars, askVars, airVars, tickVars, notamVars, lockVars, statusVars, scanVars>>
notAir == <<dbVars, aiVars, aisVars, askVars, ssrVars, tickVars, notamVars, lockVars, statusVars, scanVars>>

-----------------------------------------------------------------------------
(* Bounds of the model.                                                    *)

\* contact rows inserted under SpecDB
MaxRows == 3
\* contact rows inserted under SpecDetect
MaxDepth == 6
\* summaries extracted per rebuild cycle
MaxSummaries == 2
\* consumer threads started under SpecAis
MaxStarts == 1
\* aircraft in one snapshot of the receiver
MaxSnapshot == 2
\* snapshots fetched under SpecTick and SpecTicks
MaxTicks == 2
\* NOTAMs in one answer of the archive
MaxNotams == 2

\* texts in the index under SpecAsk
MaxIndexed == 4

\* lines of the catalog file under SpecSsr
MaxLines == 3

\* zones parsed under SpecAirspace
MaxZones == 3

-----------------------------------------------------------------------------
(* Values.                                                                 *)

\* alt_baro absent (Python None, SQL NULL)
NullAlt == -999999
\* alt_baro = "ground", the string dump1090 reports for an aircraft on the
\* ground; SQLite orders TEXT above every number, so it is the largest value
GroundAlt == 999999

Hexes == {"A", "B"}
EmergencyCodes == {"7500", "7600", "7700"}

\* Python truthiness of an alt_baro value: None and 0 are falsy
Truthy(a) == a # NullAlt /\ a # 0

\* data.get('alt_baro', 0) or 0
AltOrZero(a) == IF Truthy(a) THEN a ELSE 0

SqlMax(a, b) == IF a >= b THEN a ELSE b
SqlMin(a, b) == IF a <= b THEN a ELSE b

SetMin(S) == CHOOSE x \in S : \A y \in S : x <= y
SetMax(S) == CHOOSE x \in S : \A y \in S : x >= y

-----------------------------------------------------------------------------
(* radar_database.py                                                       *)

\* INSERT INTO aircraft_contacts
InsertContact(cs, id, rec, ts) ==
    Append(cs, [id |-> id, hex |-> rec.hex, timestamp |-> ts,
                alt_baro |-> rec.alt_baro, squawk |-> rec.squawk])

\* the squawk list of a summary after one more contact
AddSquawk(codes, squawk) ==
    IF squawk # "" /\ \A i \in 1..Len(codes) : codes[i] # squawk
    THEN Append(codes, squawk) ELSE codes

\* the UPDATE without its last_seen column
UpdateExistingSummary_StaleLastSeen(row, altitude, squawk, ts) ==
    [row EXCEPT !.total_contacts = @ + 1,
                !.squawk_codes = AddSquawk(@, squawk),
                !.max_altitude = SqlMax(@, altitude),
                !.min_altitude = SqlMin(@, altitude)]

\* the UPDATE of an existing summary row
UpdateExistingSummary(row, altitude, squawk, ts) ==
    [row EXCEPT !.last_seen = ts,
                !.total_contacts = @ + 1,
                !.squawk_codes = AddSquawk(@, squawk),
                !.max_altitude = SqlMax(@, altitude),
                !.min_altitude = SqlMin(@, altitude)]

\* the INSERT of a new summary row
NewSummary(altitude, squawk, ts) ==
    [first_seen |-> ts, last_seen |-> ts, total_contacts |-> 1,
     squawk_codes |-> AddSquawk(<<>>, squawk),
     max_altitude |-> altitude, min_altitude |-> altitude]

\* _update_aircraft_summary
UpdateAircraftSummary(sm, hex, rec, ts) ==
    LET altitude == AltOrZero(rec.alt_baro) IN
    IF hex \in DOMAIN sm
    THEN [sm EXCEPT ![hex] = UpdateExistingSummary(@, altitude, rec.squawk, ts)]
    ELSE [h \in DOMAIN sm \cup {hex} |->
            IF h = hex THEN NewSummary(altitude, rec.squawk, ts) ELSE sm[h]]

\* positions of the rows the history query's WHERE clause selects
Window(cs, hex, ts) ==
    {i \in 1..Len(cs) : cs[i].hex = hex /\ cs[i].timestamp > ts - 300}

\* ORDER BY timestamp DESC LIMIT 5: the results the query may return; rows of
\* equal timestamp come in an order SQL leaves open
RecentChoices(cs, hex, ts) ==
    LET W == Window(cs, hex, ts) IN
    IF Cardinality(W) <= 5 THEN {W}
    ELSE {R \in SUBSET W :
            /\ Cardinality(R) = 5
            /\ \A i \in R : \A j \in W \ R : cs[i].timestamp >= cs[j].timestamp}

\* recent_alts = [r['alt_baro'] for r in recent if r['alt_baro']]
RecentAlts(cs, R) == {cs[i].alt_baro : i \in {j \in R : Truthy(cs[j].alt_baro)}}

EventRow(hex, ts, kind, altitude, squawk) ==
    [hex |-> hex, timestamp |-> ts, event_type |-> kind,
     altitude |-> altitude, squawk_code |-> squawk]

\* the membership test with 7700 left out of the list
IsEmergencySquawk_No7700(squawk) == squawk \in {"7500", "7600"}

\* squawk in ['7500', '7600', '7700']
IsEmergencySquawk(squawk) == squawk \in EmergencyCodes

\* the takeoff test without the climb of more than 800 ft
TakeoffTest_NoClimb(n, altitude, alts) ==
    IF n < 3 THEN "no"
    ELSE IF altitude = GroundAlt THEN "raise"
    ELSE IF ~(altitude > 1000) THEN "no"
    ELSE IF alts = {} THEN "no"
    ELSE IF GroundAlt \in alts THEN "raise"
    ELSE IF SetMin(alts) < 500 THEN "yes"
    ELSE "no"

\* the takeoff test; "raise" is the TypeError of comparing "ground" with a number
TakeoffTest(n, altitude, alts) ==
    IF n < 3 THEN "no"
    ELSE IF altitude = GroundAlt THEN "raise"
    ELSE IF ~(altitude > 1000) THEN "no"
    ELSE IF alts = {} THEN "no"
    ELSE IF GroundAlt \in alts THEN "raise"
    ELSE IF SetMin(alts) < 500 /\ altitude - SetMin(alts) > 800 THEN "yes"
    ELSE "no"

\* the landing test with min(recent_alts) in the place of max(recent_alts)
LandingTest_Min(n, altitude, alts) ==
    IF n < 3 THEN "no"
    ELSE IF altitude = GroundAlt THEN "raise"
    ELSE IF ~(altitude < 500) THEN "no"
    ELSE IF alts = {} THEN "no"
    ELSE IF GroundAlt \in alts THEN "raise"
    ELSE IF SetMin(alts) > 2000 THEN "yes"
    ELSE "no"

\* the landing test
LandingTest(n, altitude, alts) ==
    IF n < 3 THEN "no"
    ELSE IF altitude = GroundAlt THEN "raise"
    ELSE IF ~(altitude < 500) THEN "no"
    ELSE IF alts = {} THEN "no"
    ELSE IF GroundAlt \in alts THEN "raise"
    ELSE IF SetMax(alts) > 2000 THEN "yes"
    ELSE "no"

\* _detect_flight_events, on the rows R the history query returned
DetectFlightEvents(ev, cs, hex, rec, ts, R) ==
    LET altitude == AltOrZero(rec.alt_baro)
        alts == RecentAlts(cs, R)
        n == Cardinality(R)
        ev1 == IF IsEmergencySquawk(rec.squawk)
               THEN Append(ev, EventRow(hex, ts, "EMERGENCY_SQUAWK", altitude, rec.squawk))
               ELSE ev
        t == TakeoffTest(n, altitude, alts)
        ev2 == IF t = "yes"
               THEN Append(ev1, EventRow(hex, ts, "TAKEOFF", altitude, ""))
               ELSE ev1
        l == LandingTest(n, altitude, alts)
        ev3 == IF l = "yes"
               THEN Append(ev2, EventRow(hex, ts, "LANDING", altitude, ""))
               ELSE ev2
    IN [raised |-> (t = "raise" \/ l = "raise"), events |-> ev3]

\* a connection that keeps what the failed body wrote
CloseWithoutCommit_Keeps(committed, working) == working

\* get_connection: the connection is closed without a commit when the body
\* raised, which discards the open transaction
CloseWithoutCommit(committed, working) == committed

\* steps of store_aircraft_contact at which sqlite may raise
FailPoints == {"none", "insert", "summary", "events", "commit"}

\* the step at which a call fails: a step at which sqlite raised, or the event
\* detector when it raised the TypeError
FailedAt(fail, raised) ==
    IF fail \in {"insert", "summary"} THEN fail
    ELSE IF fail = "events" \/ raised THEN "events"
    ELSE fail

\* what the call leaves committed and returns: db is the committed state, tx1,
\* tx2 and tx3 the transaction after the INSERT, the summary and the detector
Outcome(stage, db, tx1, tx2, tx3) ==
    IF stage = "insert" THEN [ok |-> FALSE, db |-> CloseWithoutCommit(db, db)]
    ELSE IF stage = "summary" THEN [ok |-> FALSE, db |-> CloseWithoutCommit(db, tx1)]
    ELSE IF stage = "events" THEN [ok |-> FALSE, db |-> CloseWithoutCommit(db, tx2)]
    ELSE IF stage = "commit" THEN [ok |-> FALSE, db |-> CloseWithoutCommit(db, tx3)]
    ELSE [ok |-> TRUE, db |-> tx3]

\* a test that lets the empty string through
NoHex_MissingOnly(aircraft_data) == "hex" \notin DOMAIN aircraft_data

\* hex_code = aircraft_data.get('hex', ''); not hex_code
NoHex(aircraft_data) ==
    IF "hex" \in DOMAIN aircraft_data THEN aircraft_data.hex = "" ELSE TRUE

\* store_aircraft_contact; the caller says what else stays as it is
StoreAircraftContact(rec, fail, ts) ==
    /\ IF NoHex(rec)
       THEN /\ UNCHANGED <<now, nextId, contacts, summary, events>>
            /\ last' = [op |-> "store", ok |-> FALSE, stage |-> "hex", cutoff |-> 0]
       ELSE
       \E cs1 \in {InsertContact(contacts, nextId, rec, ts)} :
       \E sm1 \in {UpdateAircraftSummary(summary, rec.hex, rec, ts)} :
       \E R0 \in RecentChoices(cs1, rec.hex, ts) :
       \E det \in {DetectFlightEvents(events, cs1, rec.hex, rec, ts, R0)} :
       \E stage \in {FailedAt(fail, det.raised)} :
       \E out \in {Outcome(stage,
                     [contacts |-> contacts, summary |-> summary, events |-> events],
                     [contacts |-> cs1, summary |-> summary, events |-> events],
                     [contacts |-> cs1, summary |-> sm1, events |-> events],
                     [contacts |-> cs1, summary |-> sm1, events |-> det.events])} :
          /\ contacts' = out.db.contacts
          /\ summary' = out.db.summary
          /\ events' = out.db.events
          \* a rolled back INSERT does not hand out its AUTOINCREMENT id
          /\ nextId' = IF out.ok THEN nextId + 1 ELSE nextId
          /\ last' = [op |-> "store", ok |-> out.ok, stage |-> stage, cutoff |-> 0]
          /\ now' = ts

\* the rows DELETE FROM aircraft_contacts WHERE timestamp < cutoff leaves
DeleteOldContacts(cs, cutoff) ==
    LET Keep(r) == ~(r.timestamp < cutoff) IN SelectSeq(cs, Keep)

ContactHexes(cs) == {cs[i].hex : i \in 1..Len(cs)}

\* SELECT MIN(timestamp) FROM aircraft_contacts WHERE hex = h
MinTimestamp(cs, h) == SetMin({cs[i].timestamp : i \in {j \in 1..Len(cs) : cs[j].hex = h}})

\* the DELETE of the summaries left without contacts, first_seen not recomputed
RefreshSummaries_KeepFirstSeen(sm, cs) ==
    [h \in DOMAIN sm \cap ContactHexes(cs) |-> sm[h]]

\* the UPDATE of first_seen and the DELETE of the summaries left without contacts
RefreshSummaries(sm, cs) ==
    [h \in DOMAIN sm \cap ContactHexes(cs) |->
        [sm[h] EXCEPT !.first_seen = MinTimestamp(cs, h)]]

\* cleanup_old_data
CleanupOldData(days, t) ==
    LET cutoff == t - (days * 24 * 3600)
        cs1 == DeleteOldContacts(contacts, cutoff)
    IN /\ contacts' = cs1
       /\ summary' = RefreshSummaries(summary, cs1)
       /\ last' = [op |-> "cleanup", ok |-> TRUE, stage |-> "none", cutoff |-> cutoff]
       /\ now' = t
       /\ UNCHANGED <<nextId, events>>
       /\ UNCHANGED notStore

-----------------------------------------------------------------------------
(* ai_server.py                                                            *)

Texts == {"ADS-B a", "METAR m"}
Threads == {"periodic", "manual"}

\* the summary lists extract_semantic_messages may return
SummaryLists == UNION {[1..n -> Texts] : n \in 0..MaxSummaries}

RECURSIVE Embedded(_, _, _)
\* embeddings_list: the vectors of the summaries whose embedding did not raise
Embedded(summaries, failed, i) ==
    IF i > Len(summaries) THEN <<>>
    ELSE IF i \in failed THEN Embedded(summaries, failed, i + 1)
    ELSE <<summaries[i]>> \o Embedded(summaries, failed, i + 1)

\* summaries[:n]
Prefix(s, n) == SubSeq(s, 1, IF n < Len(s) THEN n ELSE Len(s))

LivePair == [index |-> index, metadata |-> metadata]

Idle == [pc |-> "idle", summaries |-> <<>>, embs |-> <<>>, before |-> <<>>]

\* summaries = extract_semantic_messages(); if not summaries: return
RbExtract(t) ==
    /\ rb[t].pc = "idle"
    /\ \E s \in SummaryLists :
         rb' = [rb EXCEPT ![t] = [pc |-> IF s = <<>> THEN "done" ELSE "reset_index",
                                  summaries |-> s, embs |-> <<>>,
                                  before |-> <<LivePair>>]]
    /\ UNCHANGED <<index, metadata, published, seen>>
    /\ UNCHANGED notIndex

\* index = faiss.IndexFlatIP(EMBED_DIM)
RbResetIndex(t) ==
    /\ rb[t].pc = "reset_index"
    /\ index' = <<>>
    /\ rb' = [rb EXCEPT ![t].pc = "reset_meta"]
    /\ UNCHANGED <<metadata, published, seen>>
    /\ UNCHANGED notIndex

\* metadata = []
RbResetMeta(t) ==
    /\ rb[t].pc = "reset_meta"
    /\ metadata' = <<>>
    /\ rb' = [rb EXCEPT ![t].pc = "embed"]
    /\ UNCHANGED <<index, published, seen>>
    /\ UNCHANGED notIndex

\* the loop over summaries, in which get_embedding raises for the positions in
\* failed and which writes no global, then: if embeddings_list: index.add(emb_matrix)
RbEmbedAndAdd(t) ==
    /\ rb[t].pc = "embed"
    /\ \E failed \in SUBSET (1..Len(rb[t].summaries)) :
         LET embs == Embedded(rb[t].summaries, failed, 1) IN
         IF embs = <<>>
         THEN /\ rb' = [rb EXCEPT ![t].pc = "done"]
              /\ UNCHANGED index
         ELSE /\ index' = index \o embs
              /\ rb' = [rb EXCEPT ![t].embs = embs, ![t].pc = "extend"]
    /\ UNCHANGED <<metadata, published, seen>>
    /\ UNCHANGED notIndex

\* metadata.extend(summaries[:len(embeddings_list)]); the cycle has built its pair
RbExtend(t) ==
    /\ rb[t].pc = "extend"
    /\ metadata' = metadata \o Prefix(rb[t].summaries, Len(rb[t].embs))
    /\ published' = [index |-> index, metadata |-> metadata']
    /\ rb' = [rb EXCEPT ![t].pc = "done"]
    /\ UNCHANGED <<index, seen>>
    /\ UNCHANGED notIndex

\* what a request reads of the two globals: index.ntotal, len(metadata), and
\* whether the two are the pair the last complete rebuild cycle left
ReadLive(who) ==
    [who |-> who, ntotal |-> Len(index), count |-> Len(metadata),
     complete |-> (index = published.index /\ metadata = published.metadata)]

\* rebuild_index returns; /rebuild then reports len(metadata) and index.ntotal
RbReturn(t) ==
    /\ rb[t].pc = "done"
    /\ rb' = [rb EXCEPT ![t] = Idle]
    /\ seen' = IF t = "manual" THEN ReadLive("rebuild") ELSE seen
    /\ UNCHANGED <<index, metadata, published>>
    /\ UNCHANGED notIndex

\* /debug
DebugInfo ==
    /\ seen' = ReadLive("debug")
    /\ UNCHANGED <<index, metadata, rb, published>>
    /\ UNCHANGED notIndex

\* the texts an index may hold: besides the two above, one that mentions
\* weather without being a METAR
IndexTexts == Texts \cup {"Weather w"}

Queries == {"how many aircraft", "weather now", "aircraft weather", "notams"}

\* the inner product of the normalized embeddings of a query and a text, in
\* hundredths
Score(query, text) ==
    CASE query = "how many aircraft" ->
           (CASE text = "ADS-B a" -> 50 [] text = "METAR m" -> 70
              [] text = "Weather w" -> 40 [] OTHER -> 20)
      [] query = "weather now" ->
           (CASE text = "ADS-B a" -> 60 [] text = "METAR m" -> 50
              [] text = "Weather w" -> 55 [] OTHER -> 20)
      [] query = "aircraft weather" ->
           (CASE text = "ADS-B a" -> 45 [] text = "METAR m" -> 45
              [] text = "Weather w" -> 65 [] OTHER -> 35)
      [] OTHER ->
           (CASE text = "ADS-B a" -> 25 [] text = "METAR m" -> 25
              [] text = "Weather w" -> 10 [] OTHER -> 80)

\* the score faiss gives the places of a result it cannot fill
\* (-3.4028235e38), their label being -1
PadScore == -340

\* a search that returns the vectors in the order of the index
Rank_ByPosition(ix, query, i) == i

\* the place of vector i of an index among the vectors, by descending score
Rank(ix, query, i) ==
    1 + Cardinality({j \in 1..Len(ix) :
                        \/ Score(query, ix[j]) > Score(query, ix[i])
                        \/ Score(query, ix[j]) = Score(query, ix[i]) /\ j < i})

\* index.search(query_emb, k): k pairs of a score and a label, best first;
\* labels count from 0
Search(ix, query, k) ==
    [r \in 1..k |->
        IF r <= Len(ix)
        THEN LET i == CHOOSE j \in 1..Len(ix) : Rank(ix, query, j) = r
             IN [score |-> Score(query, ix[i]), idx |-> i - 1]
        ELSE [score |-> PadScore, idx |-> -1]]

\* metadata[idx]
At(md, idx) == IF idx < 0 THEN md[Len(md) + 1 + idx] ELSE md[idx + 1]

\* min(a, b)
Min2(a, b) == IF a < b THEN a ELSE b

\* the hits that pass: if idx < len(metadata) and score >= threshold
Passing(hits, md, threshold) ==
    LET Passes(h) == h.idx < Len(md) /\ h.score >= threshold
    IN SelectSeq(hits, Passes)

\* filtered_results of /ask
FilteredResults(ix, md, query, threshold, max_results) ==
    LET hits == Passing(Search(ix, query, Min2(max_results * 3, Len(md))), md, threshold)
    IN Prefix([r \in 1..Len(hits) |-> [text |-> At(md, hits[r].idx), score |-> hits[r].score]],
              max_results)

\* /ask
AskQuestion(query, threshold, max_results) ==
    /\ seen' = ReadLive("ask")
    /\ answer' = IF metadata = <<>>
                 THEN [op |-> "ask", query |-> query, threshold |-> threshold,
                       k |-> max_results, error |-> TRUE, results |-> <<>>]
                 ELSE [op |-> "ask", query |-> query, threshold |-> threshold,
                       k |-> max_results, error |-> FALSE,
                       results |-> FilteredResults(index, metadata, query, threshold, max_results)]
    /\ UNCHANGED <<index, metadata, rb, published>>
    /\ UNCHANGED notAsk

\* any(keyword in query.lower() for keyword in aircraft_keywords)
IsAircraftQuery(query) == query \in {"how many aircraft", "aircraft weather"}

\* any(keyword in query.lower() for keyword in weather_keywords)
IsWeatherQuery(query) == query \in {"weather now", "aircraft weather"}

\* 'ADS-B' in msg
HasAdsb(msg) == msg = "ADS-B a"

\* 'METAR' in msg
HasMetar(msg) == msg = "METAR m"

\* 'weather' in msg.lower()
HasWeather(msg) == msg = "Weather w"

\* the messages of the hits that pass, in the order of the search
PassingMessages(ix, md, query, threshold, search_k) ==
    LET hits == Passing(Search(ix, query, search_k), md, threshold)
    IN [r \in 1..Len(hits) |-> At(md, hits[r].idx)]

\* other_messages[:n], n possibly negative
UpTo(s, n) ==
    IF n >= 0 THEN Prefix(s, n)
    ELSE SubSeq(s, 1, IF Len(s) + n > 0 THEN Len(s) + n ELSE 0)

\* a context that is the passing messages in the order of the search
ContextMessages_ByScore(ix, md, query, threshold, max_context) ==
    IF md = <<>> THEN <<>>
    ELSE Prefix(PassingMessages(ix, md, query, threshold, Min2(max_context * 3, Len(md))),
                max_context)

\* context_messages of /chat
ContextMessages(ix, md, query, threshold, max_context) ==
    IF md = <<>> THEN <<>>
    ELSE IF IsAircraftQuery(query)
    THEN LET msgs == PassingMessages(ix, md, query, threshold, Min2(max_context * 3, Len(md)))
             NotAdsb(m) == ~HasAdsb(m)
             adsb_messages == SelectSeq(msgs, HasAdsb)
             other_messages == SelectSeq(msgs, NotAdsb)
         IN Prefix(adsb_messages \o UpTo(other_messages, max_context - Len(adsb_messages)),
                   max_context)
    ELSE IF IsWeatherQuery(query)
    THEN LET msgs == PassingMessages(ix, md, query, threshold, Min2(max_context * 3, Len(md)))
             OnlyWeather(m) == ~HasMetar(m) /\ HasWeather(m)
             Other(m) == ~HasMetar(m) /\ ~HasWeather(m)
             metar_messages == SelectSeq(msgs, HasMetar)
             weather_messages == SelectSeq(msgs, OnlyWeather)
             other_messages == SelectSeq(msgs, Other)
         IN Prefix(metar_messages \o weather_messages
                     \o UpTo(other_messages,
                             max_context - Len(metar_messages) - Len(weather_messages)),
                   max_context)
    ELSE Prefix(PassingMessages(ix, md, query, threshold, Min2(max_context * 2, Len(md))),
                max_context)

\* /chat
ChatEndpoint(query, threshold, max_context) ==
    /\ seen' = ReadLive("chat")
    /\ answer' = [op |-> "chat", query |-> query, threshold |-> threshold,
                  k |-> max_context, error |-> FALSE,
                  results |-> ContextMessages(index, metadata, query, threshold, max_context)]
    /\ UNCHANGED <<index, metadata, rb, published>>
    /\ UNCHANGED notAsk

-----------------------------------------------------------------------------
(* ais_stream_client.py                                                    *)

\* a JSON null in a message (Python None)
JsonNull == -999999

max_retries == 5

\* a loop that goes on whatever the count of failures
KeepTrying_NoLimit(run, retry_count) == run

\* while self.running and retry_count < max_retries
KeepTrying(run, retry_count) == run /\ retry_count < max_retries

\* one more failure on a count that is followed up to max_retries
Counted(n) == IF n < max_retries THEN n + 1 ELSE n

\* the consumer at the top of _connect_websocket
NewConsumer ==
    [pc |-> "while", retry_count |-> 0, sinceConnect |-> 0, sinceReceive |-> 0,
     wait_time |-> 0, skipped |-> FALSE]

Min(a, b) == IF a < b THEN a ELSE b

\* wait_time = min(2 ** retry_count, 60)
WaitTime(retry_count) == Min(2 ^ retry_count, 60)

\* the text of a frame that is not JSON
Garbled == [text |-> "{"]

\* json.loads(message): the data of a well-formed frame, or JSONDecodeError
JsonLoads(frame) ==
    IF "text" \in DOMAIN frame THEN [raised |-> TRUE] ELSE [raised |-> FALSE, data |-> frame]

\* a decode error that ends the pass through the connection
OnDecodeError_Disconnects(c) ==
    [c EXCEPT !.pc = "while", !.retry_count = @ + 1, !.skipped = TRUE]

\* except json.JSONDecodeError: the error is printed, the loop goes on
OnDecodeError(c) == [c EXCEPT !.skipped = TRUE]

\* round(x, 1), on hundredths, giving tenths
Round1(x) == (x + 5) \div 10

\* str.strip on the names of the model
Strip(name) == IF name = " X " THEN "X" ELSE name

\* d[k] = x
Put(d, k, x) == [f \in DOMAIN d \cup {k} |-> IF f = k THEN x ELSE d[f]]

\* position of the vessel of an mmsi in the map, 0 when it has none
Slot(vs, mmsi) ==
    IF \E k \in 1..Len(vs) : vs[k]["mmsi"] = mmsi
    THEN CHOOSE k \in 1..Len(vs) : vs[k]["mmsi"] = mmsi
    ELSE 0

\* a record that is always a new one
GetVessel_Fresh(vs, mmsi) == [f \in {"mmsi"} |-> mmsi]

\* self.vessels.get(mmsi, {'mmsi': mmsi})
GetVessel(vs, mmsi) ==
    IF Slot(vs, mmsi) = 0 THEN [f \in {"mmsi"} |-> mmsi] ELSE vs[Slot(vs, mmsi)]

\* the vessel record after the statements of _process_ais_message up to the
\* first that raises, and whether one raised
MergeMessage(vessel, message, t) ==
    LET v1 == Put(vessel, "last_update", t)
        v2 == IF "Latitude" \in DOMAIN message /\ "Longitude" \in DOMAIN message
              THEN Put(Put(v1, "lat", message["Latitude"]), "lon", message["Longitude"])
              ELSE v1
        speedRaises == "SpeedOverGround" \in DOMAIN message
                         /\ message["SpeedOverGround"] = JsonNull
        v3 == IF "SpeedOverGround" \in DOMAIN message /\ ~speedRaises
              THEN Put(v2, "speed", Round1(message["SpeedOverGround"]))
              ELSE v2
        v4 == IF "VesselName" \in DOMAIN message
              THEN Put(v3, "name", Strip(message["VesselName"]))
              ELSE v3
    IN IF speedRaises THEN [raised |-> TRUE, vessel |-> v2]
       ELSE [raised |-> FALSE, vessel |-> v4]

\* _process_ais_message: the vessel map after the message. The record of a
\* known vessel is updated in place, so it keeps what was assigned before an
\* exception; a new record is stored by the last statement only
ProcessAisMessage(vs, message, t) ==
    IF DOMAIN message = {} THEN vs
    ELSE IF "UserID" \notin DOMAIN message \/ message["UserID"] = 0 THEN vs
    ELSE LET mmsi == message["UserID"]
             k == Slot(vs, mmsi)
             m == MergeMessage(GetVessel(vs, mmsi), message, t)
         IN IF k # 0 THEN [vs EXCEPT ![k] = m.vessel]
            ELSE IF m.raised THEN vs
            ELSE Append(vs, m.vessel)

\* _haversine_distance from the query's centre to a position, in hundredths of
\* a nautical mile: the positions of the model, by their latitude
HaversineDistance(lat, lon) ==
    IF lat = 1 THEN 104 ELSE IF lat = 2 THEN 101 ELSE 2000

\* the entry of get_vessels_in_range for a vessel, or none
InRangeEntry(v, range_nm, t) ==
    IF "last_update" \in DOMAIN v /\ t - v["last_update"] > 600 THEN <<>>
    ELSE IF "lat" \notin DOMAIN v \/ "lon" \notin DOMAIN v THEN <<>>
    ELSE IF HaversineDistance(v["lat"], v["lon"]) <= range_nm
         THEN <<[mmsi |-> v["mmsi"], distance_nm |-> Round1(HaversineDistance(v["lat"], v["lon"]))]>>
         ELSE <<>>

RECURSIVE InRangeList(_, _, _, _)
\* vessels_in_range before the sort, from the k-th vessel on
InRangeList(vs, k, range_nm, t) ==
    IF k > Len(vs) THEN <<>>
    ELSE InRangeEntry(vs[k], range_nm, t) \o InRangeList(vs, k + 1, range_nm, t)

\* a list with e put at its end
InsertByDistance_Append(sorted, e) == Append(sorted, e)

\* a list with e put behind the entries that are not farther (list.sort is stable)
InsertByDistance(sorted, e) ==
    LET n == Cardinality({i \in 1..Len(sorted) : sorted[i].distance_nm <= e.distance_nm})
    IN SubSeq(sorted, 1, n) \o <<e>> \o SubSeq(sorted, n + 1, Len(sorted))

RECURSIVE SortByDistance(_)
\* vessels_in_range.sort(key=lambda x: x.get('distance_nm', 999))
SortByDistance(list) ==
    IF list = <<>> THEN <<>>
    ELSE InsertByDistance(SortByDistance(SubSeq(list, 1, Len(list) - 1)), list[Len(list)])

\* get_vessels_in_range
GetVesselsInRange(range_nm, t) ==
    /\ aisOut' = [op |-> "range", range_nm |-> range_nm,
                  list |-> SortByDistance(InRangeList(vessels, 1, range_nm, t))]
    /\ now' = t
    /\ UNCHANGED <<running, cons, vessels>>
    /\ UNCHANGED notAis

\* vessels updated within the last 10 minutes
ActiveVessels(vs, t) ==
    Cardinality({k \in 1..Len(vs) : "last_update" \in DOMAIN vs[k] /\ t - vs[k]["last_update"] <= 600})

\* get_status
GetStatus(t) ==
    /\ aisOut' = [op |-> "status", connected |-> running,
                  total_vessels |-> Len(vessels), active_vessels |-> ActiveVessels(vessels, t)]
    /\ now' = t
    /\ UNCHANGED <<running, cons, vessels>>
    /\ UNCHANGED notAis

\* a staleness test that takes max_age_minutes for hours
IsStale_Hours(v, max_age_minutes, t) ==
    "last_update" \in DOMAIN v /\ t - v["last_update"] > max_age_minutes * 3600

\* whether cleanup_stale_vessels finds a vessel stale
IsStale(v, max_age_minutes, t) ==
    "last_update" \in DOMAIN v /\ t - v["last_update"] > max_age_minutes * 60

\* cleanup_stale_vessels
CleanupStaleVessels(max_age_minutes, t) ==
    LET Fresh(v) == ~IsStale(v, max_age_minutes, t) IN
    /\ vessels' = SelectSeq(vessels, Fresh)
    /\ aisOut' = [op |-> "cleanup", max_age_minutes |-> max_age_minutes]
    /\ now' = t
    /\ UNCHANGED <<running, cons>>
    /\ UNCHANGED notAis

\* a message handed to _process_ais_message
HandleMessage(message, t) ==
    /\ vessels' = ProcessAisMessage(vessels, message, t)
    /\ aisOut' = [op |-> "message", message |-> message]
    /\ now' = t

\* _process_ais_message, called directly
ProcessMessage(message, t) ==
    /\ HandleMessage(message, t)
    /\ UNCHANGED <<running, cons>>
    /\ UNCHANGED notAis

\* start_connection
StartConnection ==
    /\ IF running
       THEN UNCHANGED <<running, cons>>
       ELSE /\ running' = TRUE
            /\ cons' = Append(cons, NewConsumer)
    /\ aisOut' = [op |-> "start"]
    /\ UNCHANGED <<now, vessels>>
    /\ UNCHANGED notAis

\* stop_connection. asyncio.create_task is called in the thread of the request,
\* which runs no event loop: it raises when self.connection is set, and the
\* connection is closed in neither case
StopConnection ==
    /\ running' = FALSE
    /\ aisOut' = [op |-> "stop"]
    /\ UNCHANGED <<now, cons, vessels>>
    /\ UNCHANGED notAis

\* retry_count += 1, at the end of a pass through the loop, and the sleep of
\* wait_time seconds if the consumer is to try again
EndOfPass(c) ==
    [c EXCEPT !.pc = "while",
              !.retry_count = @ + 1,
              !.sinceConnect = Counted(@),
              !.sinceReceive = Counted(@),
              !.wait_time = IF running /\ c.retry_count + 1 < max_retries
                            THEN WaitTime(c.retry_count + 1) ELSE 0]

\* the test of the while loop
WhileCheck(i) ==
    /\ cons[i].pc = "while"
    /\ cons' = [cons EXCEPT ![i].pc =
                  IF KeepTrying(running, cons[i].retry_count) THEN "connect" ELSE "after"]
    /\ UNCHANGED <<now, running, vessels, aisOut>>
    /\ UNCHANGED notAis

\* websockets.connect or the subscription raises
ConnectFails(i) ==
    /\ cons[i].pc = "connect"
    /\ cons' = [cons EXCEPT ![i] = EndOfPass(@)]
    /\ UNCHANGED <<now, running, vessels, aisOut>>
    /\ UNCHANGED notAis

\* connected and subscribed: retry_count = 0
Connected(i) ==
    /\ cons[i].pc = "connect"
    /\ cons' = [cons EXCEPT ![i].pc = "listen", ![i].retry_count = 0, ![i].sinceConnect = 0,
                            ![i].skipped = FALSE]
    /\ UNCHANGED <<now, running, vessels, aisOut>>
    /\ UNCHANGED notAis

\* async for message in websocket: a frame arrives
Receive(i, frame, t) ==
    /\ cons[i].pc = "listen"
    /\ IF ~running
       THEN /\ cons' = [cons EXCEPT ![i] = EndOfPass(@)]
            /\ UNCHANGED <<now, vessels, aisOut>>
       ELSE IF JsonLoads(frame).raised
       THEN /\ cons' = [cons EXCEPT ![i] = OnDecodeError([@ EXCEPT !.sinceReceive = 0])]
            /\ aisOut' = [op |-> "decode_error", consumer |-> i]
            /\ UNCHANGED <<now, vessels>>
       ELSE /\ cons' = [cons EXCEPT ![i].sinceReceive = 0]
            /\ HandleMessage(JsonLoads(frame).data, t)
    /\ UNCHANGED running
    /\ UNCHANGED notAis

\* the connection closes
ConnectionClosed(i) ==
    /\ cons[i].pc = "listen"
    /\ cons' = [cons EXCEPT ![i] = EndOfPass(@)]
    /\ UNCHANGED <<now, running, vessels, aisOut>>
    /\ UNCHANGED notAis

\* after the loop: if retry_count >= max_retries: self.running = False
AfterLoop(i) ==
    /\ cons[i].pc = "after"
    /\ cons' = [cons EXCEPT ![i].pc = "done"]
    /\ running' = IF cons[i].retry_count >= max_retries THEN FALSE ELSE running
    /\ UNCHANGED <<now, vessels, aisOut>>
    /\ UNCHANGED notAis


\* nobody inside _process_ais_message or get_vessels_in_range
Between(vs) ==
    [merge |-> [pc |-> "idle"], reader |-> [pc |-> "idle"],
     versions |-> {vs[k] : k \in 1..Len(vs)}]

\* the assignments _process_ais_message makes to the vessel record for a
\* message, in the order of its statements
Assignments(message, t) ==
    << <<"last_update", t>> >>
    \o (IF "Latitude" \in DOMAIN message /\ "Longitude" \in DOMAIN message
        THEN << <<"lat", message["Latitude"]>>, <<"lon", message["Longitude"]>> >>
        ELSE <<>>)
    \o (IF "SpeedOverGround" \in DOMAIN message
        THEN << <<"speed", Round1(message["SpeedOverGround"])>> >>
        ELSE <<>>)
    \o (IF "VesselName" \in DOMAIN message
        THEN << <<"name", Strip(message["VesselName"])>> >>
        ELSE <<>>)

\* _process_ais_message up to vessel = self.vessels.get(mmsi, {'mmsi': mmsi}):
\* for a known vessel the record is the one the map holds
MergeBegin(message, t) ==
    /\ scan.merge.pc = "idle"
    /\ "UserID" \in DOMAIN message /\ message["UserID"] # 0
    /\ scan' = [scan EXCEPT !.merge =
            [pc |-> "assign", mmsi |-> message["UserID"],
             k |-> Slot(vessels, message["UserID"]),
             vessel |-> GetVessel(vessels, message["UserID"]),
             todo |-> Assignments(message, t)]]
    /\ UNCHANGED vessels
    /\ UNCHANGED notScan

\* the next assignment to the vessel record; the record of a known vessel is
\* changed inside the map
MergeAssign ==
    /\ scan.merge.pc = "assign" /\ scan.merge.todo # <<>>
    /\ LET key == Head(scan.merge.todo)[1]
           value == Head(scan.merge.todo)[2]
       IN /\ scan' = [scan EXCEPT !.merge.vessel = Put(@, key, value),
                                  !.merge.todo = Tail(@)]
          /\ vessels' = IF scan.merge.k = 0 THEN vessels
                        ELSE [vessels EXCEPT ![scan.merge.k] = Put(@, key, value)]
    /\ UNCHANGED notScan

\* self.vessels[mmsi] = vessel: a new vessel enters the map
MergeStore ==
    /\ scan.merge.pc = "assign" /\ scan.merge.todo = <<>>
    /\ vessels' = IF scan.merge.k = 0 THEN Append(vessels, scan.merge.vessel) ELSE vessels
    /\ scan' = [scan EXCEPT !.merge = [pc |-> "idle"],
                            !.versions = @ \cup {scan.merge.vessel}]
    /\ UNCHANGED notScan

\* get_vessels_in_range up to the for statement: the iterator over
\* self.vessels.items() remembers the size of the map
ReadBegin(range_nm, t) ==
    /\ scan.reader.pc # "loop"
    /\ scan' = [scan EXCEPT !.reader =
            [pc |-> "loop", k |-> 1, size |-> Len(vessels), range_nm |-> range_nm,
             current_time |-> t, out |-> <<>>]]
    /\ UNCHANGED vessels
    /\ UNCHANGED notScan

\* vessel.copy() with its distance, for a vessel in range
VesselCopy(v, range_nm, t) ==
    IF InRangeEntry(v, range_nm, t) = <<>> THEN <<>>
    ELSE <<Put(v, "distance_nm", InRangeEntry(v, range_nm, t)[1].distance_nm)>>

\* one round of the for statement: the iterator raises RuntimeError when the
\* map has changed size since the loop began; after the last vessel the list
\* is sorted and returned
ReadNext ==
    /\ scan.reader.pc = "loop"
    /\ LET r == scan.reader
       IN scan' = [scan EXCEPT !.reader =
            IF Len(vessels) # r.size THEN [pc |-> "raised", error |-> "RuntimeError"]
            ELSE IF r.k > r.size THEN [pc |-> "done", out |-> SortByDistance(r.out)]
            ELSE [r EXCEPT !.k = @ + 1,
                           !.out = @ \o VesselCopy(vessels[r.k], r.range_nm, r.current_time)]]
    /\ UNCHANGED vessels
    /\ UNCHANGED notScan

-----------------------------------------------------------------------------
(* ssr_code_parser.py                                                      *)

\* the lines a catalog file may hold
CatalogLines ==
    {"SSR CODE ALLOCATION", "0033- PARADROPPING", "0100-0102. TRANSIT LONDON",
     "0101. POLICE ASU", "7700. EMERGENCY", "7700. SPECIAL PURPOSE"}

\* line[0].isdigit()
StartsWithDigit(line) == line # "SSR CODE ALLOCATION"

\* the groups of re.match(r'^(\d{4})([-.]?\d*)\.?\s+(.+)$', line)
MatchGroups(line) ==
    CASE line = "0033- PARADROPPING" ->
           [code_start |-> "0033", code_range |-> "-", description |-> "PARADROPPING"]
      [] line = "0100-0102. TRANSIT LONDON" ->
           [code_start |-> "0100", code_range |-> "-0102", description |-> "TRANSIT LONDON"]
      [] line = "0101. POLICE ASU" ->
           [code_start |-> "0101", code_range |-> ".", description |-> "POLICE ASU"]
      [] line = "7700. EMERGENCY" ->
           [code_start |-> "7700", code_range |-> ".", description |-> "EMERGENCY"]
      [] line = "7700. SPECIAL PURPOSE" ->
           [code_start |-> "7700", code_range |-> ".", description |-> "SPECIAL PURPOSE"]

\* '-' in code_range
HasDash(code_range) == code_range \in {"-", "-0102"}

\* code_range.replace('-', '')
WithoutDash(code_range) ==
    CASE code_range = "-" -> "" [] code_range = "-0102" -> "0102" [] OTHER -> code_range

\* int(s) of a string of digits; int('') raises ValueError
IntOf(s) ==
    CASE s = "0033" -> 33 [] s = "0100" -> 100 [] s = "0101" -> 101
      [] s = "0102" -> 102 [] s = "7700" -> 7700

\* f"{code_num:04d}"
Format04(n) ==
    CASE n = 33 -> "0033" [] n = 100 -> "0100" [] n = 101 -> "0101"
      [] n = 102 -> "0102" [] n = 7700 -> "7700"

RECURSIVE PutRange(_, _, _, _, _)
\* for code_num in range(start_num, end_num + 1): self.codes[code] = {...}
PutRange(cs, code_num, end_num, description, line) ==
    IF code_num > end_num THEN cs
    ELSE PutRange(Put(cs, Format04(code_num),
                      [code |-> Format04(code_num), description |-> description,
                       type |-> "RANGE", original_line |-> line]),
                  code_num + 1, end_num, description, line)

RECURSIVE LoadLines(_, _, _)
\* the loop of load_ssr_codes from line i on; an exception ends the load and
\* leaves the codes assigned so far
LoadLines(cs, lines, i) ==
    IF i > Len(lines) THEN cs
    ELSE IF ~StartsWithDigit(lines[i]) THEN LoadLines(cs, lines, i + 1)
    ELSE LET g == MatchGroups(lines[i]) IN
         IF g.code_range # "" /\ HasDash(g.code_range)
         THEN IF WithoutDash(g.code_range) = "" THEN cs
              ELSE LoadLines(PutRange(cs, IntOf(g.code_start), IntOf(WithoutDash(g.code_range)),
                                      g.description, lines[i]),
                             lines, i + 1)
         ELSE LoadLines(Put(cs, g.code_start,
                            [code |-> g.code_start, description |-> g.description,
                             type |-> "SINGLE", original_line |-> lines[i]]),
                        lines, i + 1)

NoFile == <<"FileNotFoundError">>

\* load_ssr_codes: self.codes after it
LoadSsrCodes(file) ==
    IF file = NoFile THEN [c \in {} |-> 0]
    ELSE LoadLines([c \in {} |-> 0], file, 1)

\* the keywords of categorize_codes that occur in description.upper()
KeywordsIn(description) ==
    CASE description = "PARADROPPING" -> {"PARADROPPING"}
      [] description = "TRANSIT LONDON" -> {"TRANSIT"}
      [] description = "POLICE ASU" -> {"POLICE", "ASU"}
      [] description = "EMERGENCY" -> {"EMERGENCY"}
      [] description = "SPECIAL PURPOSE" -> {"SPECIAL"}

\* any(keyword in description for keyword in [...])
AnyIn(keywords, description) == keywords \cap KeywordsIn(description) # {}

\* the category the chain of categorize_codes puts a description in, and
\* whether it adds the code to alert_codes
Categorize(description) ==
    IF AnyIn({"EMERGENCY", "HI-JACKING", "RADIO FAILURE", "MAYDAY", "PAN-PAN"}, description)
    THEN [category |-> "EMERGENCY", alert |-> TRUE]
    ELSE IF AnyIn({"SAR", "SEARCH AND RESCUE", "AIR AMBULANCE",
                   "HELICOPTER EMERGENCY MEDIVAC", "HEMS", "MEDIVAC"}, description)
    THEN [category |-> "SAR", alert |-> TRUE]
    ELSE IF AnyIn({"AMBULANCE", "MEDIVAC", "MEDICAL", "HEMS"}, description)
    THEN [category |-> "MEDICAL", alert |-> TRUE]
    ELSE IF AnyIn({"POLICE", "ASU", "AIR SUPPORT"}, description)
    THEN [category |-> "POLICE", alert |-> TRUE]
    ELSE IF AnyIn({"NATO", "CAOC", "EXERCISES", "AEW AIRCRAFT", "QUICK REACTION"}, description)
    THEN [category |-> "NATO", alert |-> TRUE]
    ELSE IF AnyIn({"RAF", "RNAS", "MILITARY", "MOD", "SPECIAL TASKS", "ROYAL FLIGHTS"}, description)
    THEN [category |-> "MILITARY",
          alert |-> AnyIn({"SPECIAL TASKS", "ROYAL FLIGHTS"}, description)]
    ELSE IF AnyIn({"SPECIAL", "PARADROPPING", "ANTENNA TRAILING", "TARGET TOWING",
                   "HIGH-ENERGY MANOEUVRES", "RED ARROWS", "AEROBATICS", "DISPLAY"}, description)
    THEN [category |-> "SPECIAL_OPS", alert |-> TRUE]
    ELSE IF AnyIn({"CONSPICUITY"}, description)
    THEN [category |-> "CONSPICUITY", alert |-> FALSE]
    ELSE IF AnyIn({"TRANSIT", "ORCAM"}, description)
    THEN [category |-> "TRANSIT", alert |-> FALSE]
    ELSE IF AnyIn({"APPROACH"}, description)
    THEN [category |-> "APPROACH", alert |-> FALSE]
    ELSE IF AnyIn({"MONITORING"}, description)
    THEN [category |-> "MONITORING", alert |-> FALSE]
    ELSE IF AnyIn({"UNRELIABLE"}, description)
    THEN [category |-> "UNRELIABLE", alert |-> FALSE]
    ELSE [category |-> "", alert |-> FALSE]

CategoryNames ==
    {"EMERGENCY", "MILITARY", "SAR", "POLICE", "MEDICAL", "NATO", "QRA", "SPECIAL_OPS",
     "CONSPICUITY", "TRANSIT", "APPROACH", "MONITORING", "UNRELIABLE"}

\* SSRCodeParser(file): __init__, load_ssr_codes, categorize_codes
SSRCodeParser(file) ==
    LET cs == LoadSsrCodes(file) IN
    [file |-> file,
     codes |-> cs,
     categories |-> [cat \in CategoryNames |->
                        {c \in DOMAIN cs : Categorize(cs[c].description).category = cat}],
     alert_codes |-> {c \in DOMAIN cs : Categorize(cs[c].description).alert}]

\* squawk_code.replace(' ', '').zfill(4)
ZFill4(squawk_code) == IF squawk_code = "101" THEN "0101" ELSE squawk_code

\* _get_priority
GetPriority(categories) ==
    IF "EMERGENCY" \in categories THEN "CRITICAL"
    ELSE IF categories \cap {"SAR", "MEDICAL", "POLICE", "NATO"} # {} THEN "HIGH"
    ELSE IF categories \cap {"MILITARY", "SPECIAL_OPS"} # {} THEN "MEDIUM"
    ELSE "LOW"

\* what get_code_info returns: the code's record with its categories, is_alert
\* and priority, or None
CodeInfo(parser, squawk_code) ==
    LET code == ZFill4(squawk_code) IN
    IF squawk_code = "" \/ code \notin DOMAIN parser.codes THEN [none |-> TRUE]
    ELSE LET categories == {cat \in CategoryNames : code \in parser.categories[cat]}
         IN [none |-> FALSE,
             code |-> code,
             description |-> parser.codes[code].description,
             type |-> parser.codes[code].type,
             categories |-> categories,
             is_alert |-> code \in parser.alert_codes,
             priority |-> GetPriority(categories)]

\* /api/ssr-codes?code=...
GetCodeInfo(code) ==
    /\ ssrOut' = [op |-> "lookup", code |-> code, info |-> CodeInfo(ssrParser, code)]
    /\ UNCHANGED ssrParser
    /\ UNCHANGED notSsr

\* proxy_aircraft: the ssr data it attaches to an aircraft with a squawk
EnrichAircraft(squawk) ==
    /\ squawk # ""
    /\ \E info \in {CodeInfo(ssrParser, squawk)} :
         ssrOut' = [op |-> "enrich", squawk |-> squawk,
                    ssr |-> IF info.none
                            THEN [code |-> squawk, description |-> "Unknown SSR code",
                                  categories |-> {}, priority |-> "LOW", is_alert |-> FALSE]
                            ELSE [code |-> info.code, description |-> info.description,
                                  categories |-> info.categories, priority |-> info.priority,
                                  is_alert |-> info.is_alert]]
    /\ UNCHANGED ssrParser
    /\ UNCHANGED notSsr

-----------------------------------------------------------------------------
(* airspace_parser.py                                                      *)

\* the positions asked about
Points == {1, 2}

\* the TYPE_MAPPINGS names of the zones of the model
ZoneTypes == {"CTR", "CTA/TMA", "ATZ", "MATZ"}

\* a zone: its type and the positions zone.polygon.contains is true of
ZoneKinds == [type : ZoneTypes, covers : SUBSET Points]

\* the priority types taken from the last to the first
priority_types_Reversed == <<"TMA", "CTA/TMA", "CTR">>

priority_types == <<"CTR", "CTA/TMA", "TMA">>

IsPriorityType(type) == \E k \in 1..Len(priority_types) : priority_types[k] = type

RECURSIVE TypesInOrder(_, _)
\* the keys of zones_by_type in insertion order, from zone i on
TypesInOrder(zs, i) ==
    IF i > Len(zs) THEN <<>>
    ELSE IF \E j \in 1..(i - 1) : zs[j].type = zs[i].type THEN TypesInOrder(zs, i + 1)
    ELSE <<zs[i].type>> \o TypesInOrder(zs, i + 1)

RECURSIVE ContainingOfType(_, _, _, _)
\* the zones of one type that contain the point, as positions in self.zones,
\* in the order of zones_by_type[zone_type]
ContainingOfType(zs, type, point, i) ==
    IF i > Len(zs) THEN <<>>
    ELSE IF zs[i].type = type /\ point \in zs[i].covers
    THEN <<i>> \o ContainingOfType(zs, type, point, i + 1)
    ELSE ContainingOfType(zs, type, point, i + 1)

RECURSIVE ContainingOfTypes(_, _, _, _)
\* the containing zones of the types of a list, type after type
ContainingOfTypes(zs, types, point, k) ==
    IF k > Len(types) THEN <<>>
    ELSE ContainingOfType(zs, types[k], point, 1) \o ContainingOfTypes(zs, types, point, k + 1)

\* find_airspace_for_position
ContainingZones(zs, point) ==
    LET NotPriority(type) == ~IsPriorityType(type)
        containing_zones == ContainingOfTypes(zs, priority_types, point, 1)
    IN IF containing_zones # <<>> THEN containing_zones
       ELSE ContainingOfTypes(zs, SelectSeq(TypesInOrder(zs, 1), NotPriority), point, 1)

\* /api/airspace/identify
FindAirspaceForPosition(point) ==
    /\ found' = [op |-> "find", point |-> point, zones |-> ContainingZones(zones, point)]
    /\ UNCHANGED zones
    /\ UNCHANGED notAir

-----------------------------------------------------------------------------
(* airspace_server.py: proxy_aircraft, the handler of /tmp/aircraft.json.  *)
(* A request is one tick: it fetches the receiver's snapshot and enriches  *)
(* its aircraft one after the other. Flask serves requests on threads, so  *)
(* a tick is a thread with a position; the work on one aircraft is one     *)
(* step, since all it shares with other threads is the store, which it     *)
(* enters once.                                                            *)

\* the threads serving requests for /tmp/aircraft.json
Servers == {"s1", "s2"}

\* a thread that serves no request
Waiting == [pc |-> "idle", data |-> <<>>, i |-> 0, enhanced_aircraft |-> <<>>,
            failed |-> <<>>, handed |-> <<>>, observed |-> 0]

\* Python None as the value of an enrichment field
None == [none |-> TRUE]

\* the position of the model an aircraft reporting (lat, lon) is at: position 2
\* lies on the Greenwich meridian
PointOf(lat, lon) == IF lon = 0 THEN 2 ELSE 1

\* aircraft.get('lat') and aircraft.get('lon')
HasPosition(aircraft) ==
    /\ "lat" \in DOMAIN aircraft /\ Truthy(aircraft.lat)
    /\ "lon" \in DOMAIN aircraft /\ Truthy(aircraft.lon)

\* squawk = aircraft.get('squawk'); if squawk
HasSquawk(aircraft) == "squawk" \in DOMAIN aircraft /\ aircraft.squawk # ""

\* the zones airspace_parser.find_airspace_for_position returns for the aircraft
ZonesOf(aircraft) == ContainingZones(zones, PointOf(aircraft.lat, aircraft.lon))

\* the steps of the loop body that run for an aircraft, each of which may raise
StepsOf(aircraft) ==
    {"none"}
    \cup (IF HasPosition(aircraft) THEN {"airspace"} ELSE {})
    \cup (IF HasPosition(aircraft) /\ ZonesOf(aircraft) # <<>> THEN {"store"} ELSE {})
    \cup (IF HasSquawk(aircraft) THEN {"ssr"} ELSE {})
    \cup (IF "hex" \in DOMAIN aircraft THEN {"registry"} ELSE {})

\* lines 978-1010 without the store: enhanced_ac after the airspace lookup
AirspaceBlock(enhanced_ac, aircraft, fail) ==
    IF ~HasPosition(aircraft) THEN enhanced_ac
    ELSE IF fail = "airspace" THEN Put(enhanced_ac, "airspace", None)
    ELSE IF ZonesOf(aircraft) # <<>>
    THEN LET primary_zone == ZonesOf(aircraft)[1] IN
         Put(Put(enhanced_ac, "airspace",
                 [zone |-> primary_zone, type |-> zones[primary_zone].type]),
             "airspace_zones", Len(ZonesOf(aircraft)))
    ELSE Put(Put(enhanced_ac, "airspace",
                 [zone |-> 0, name |-> "Uncontrolled", type |-> "Class G"]),
             "airspace_zones", 0)

\* lines 994-999: radar_db.store_aircraft_contact is called in the branch of
\* a non-empty zone list only
StoreReached(aircraft, fail) ==
    HasPosition(aircraft) /\ fail # "airspace" /\ ZonesOf(aircraft) # <<>>

\* the ssr data attached for a squawk: the catalog's, or the placeholder
SsrData(squawk) ==
    LET info == CodeInfo(ssrParser, squawk) IN
    IF info.none
    THEN [code |-> squawk, description |-> "Unknown SSR code",
          categories |-> {}, priority |-> "LOW", is_alert |-> FALSE]
    ELSE [code |-> info.code, description |-> info.description,
          categories |-> info.categories, priority |-> info.priority,
          is_alert |-> info.is_alert]

\* lines 1012-1050: enhanced_ac after the SSR lookup
SsrBlock(enhanced_ac, aircraft, fail) ==
    IF ~HasSquawk(aircraft) THEN enhanced_ac
    ELSE IF fail = "ssr" THEN Put(enhanced_ac, "ssr", None)
    ELSE LET ssr == SsrData(aircraft.squawk)
             with_ssr == Put(enhanced_ac, "ssr", ssr)
         IN IF ssr.is_alert
            THEN Put(with_ssr, "alert", [type |-> "SSR_CODE", priority |-> ssr.priority])
            ELSE with_ssr

\* basestation_db.get_aircraft_info: the registrations of the BaseStation file
Registrations == [h \in {"A"} |-> "G-AAAA"]

\* lines 1052-1071: enhanced_ac after the registry join (of the fields the
\* join copies, the registration stands for all)
BasestationBlock(enhanced_ac, aircraft, fail) ==
    IF "hex" \notin DOMAIN aircraft THEN enhanced_ac
    ELSE IF fail = "registry" THEN Put(enhanced_ac, "enhanced", FALSE)
    ELSE IF aircraft.hex \in DOMAIN Registrations
    THEN Put(Put(enhanced_ac, "registration", Registrations[aircraft.hex]),
             "enhanced", TRUE)
    ELSE Put(enhanced_ac, "enhanced", FALSE)

\* a loop that drops the aircraft one of whose steps raised
Collect_DropFailed(enhanced_aircraft, enhanced_ac, fail) ==
    IF fail = "none" THEN Append(enhanced_aircraft, enhanced_ac) ELSE enhanced_aircraft

\* enhanced_aircraft.append(enhanced_ac)
Collect(enhanced_aircraft, enhanced_ac, fail) == Append(enhanced_aircraft, enhanced_ac)

\* lines 963-972: the snapshot is fetched and the loop begins
ProxyFetch(t, data) ==
    /\ tick[t].pc = "idle"
    /\ fetched' = fetched + 1
    /\ tick' = [tick EXCEPT ![t] = [pc |-> "loop", data |-> data, i |-> 1,
                                    enhanced_aircraft |-> <<>>, failed |-> <<>>,
                                    handed |-> <<>>, observed |-> fetched + 1]]
    /\ response' = [op |-> "none"]
    /\ UNCHANGED dbVars
    /\ UNCHANGED notTick

\* lines 965-967 raise: the except clause of lines 1083-1090 answers 503
ProxyFetchFails(t) ==
    /\ tick[t].pc = "idle"
    /\ response' = [op |-> "proxy", status |-> 503, data |-> <<>>, aircraft |-> <<>>,
                    failed |-> <<>>, handed |-> <<>>, observed |-> 0]
    /\ UNCHANGED <<tick, fetched>>
    /\ UNCHANGED dbVars
    /\ UNCHANGED notTick

\* lines 974-1073: one round of the loop, for the aircraft at tick[t].i; fail is
\* the step that raises in this round, ts what time.time() returns in the store
ProxyAircraft(t, fail, ts) ==
    /\ tick[t].pc = "loop"
    /\ tick[t].i <= Len(tick[t].data)
    /\ LET aircraft == tick[t].data[tick[t].i]
           with_airspace == AirspaceBlock(aircraft, aircraft, fail)
           with_ssr == SsrBlock(with_airspace, aircraft, fail)
           enhanced_ac == BasestationBlock(with_ssr, aircraft, fail)
           handed == IF StoreReached(aircraft, fail)
                     THEN <<[i |-> tick[t].i, keys |-> DOMAIN with_airspace,
                             row |-> nextId, ok |-> last'.ok]>>
                     ELSE <<>>
       IN /\ fail \in StepsOf(aircraft)
          /\ IF StoreReached(aircraft, fail)
             THEN StoreAircraftContact(with_airspace,
                                       IF fail = "store" THEN "commit" ELSE "none", ts)
             ELSE UNCHANGED dbVars
          /\ tick' = [tick EXCEPT ![t].i = @ + 1,
                                  ![t].enhanced_aircraft = Collect(@, enhanced_ac, fail),
                                  ![t].failed = Append(@, fail),
                                  ![t].handed = @ \o handed]
    /\ UNCHANGED <<fetched, response>>
    /\ UNCHANGED notTick

\* lines 1075-1081: the enhanced list is returned
ProxyReturn(t) ==
    /\ tick[t].pc = "loop"
    /\ tick[t].i > Len(tick[t].data)
    /\ response' = [op |-> "proxy", status |-> 200, data |-> tick[t].data,
                    aircraft |-> tick[t].enhanced_aircraft,
                    failed |-> tick[t].failed, handed |-> tick[t].handed,
                    observed |-> tick[t].observed]
    /\ tick' = [tick EXCEPT ![t] = Waiting]
    /\ UNCHANGED fetched
    /\ UNCHANGED dbVars
    /\ UNCHANGED notTick

-----------------------------------------------------------------------------
(* airspace_server.py: the NOTAM feed (fetch_live_notams, its cache,       *)
(* filter_notams_by_location and the handler of /api/notams).              *)

\* timedelta(minutes=30), in seconds
NotamTtl == 1800

\* the answer of an archive that cannot be reached, or whose XML does not parse
Unreachable == [error |-> "RequestException"]

\* notam_cache['expires'] is None
NoExpiry == -1

\* lines 68-72: the cache before the first fetch
EmptyCache == [data |-> None, expires |-> NoExpiry]

\* truthiness of notam_cache['data']: None and the empty list are falsy
HasData(cache) == cache.data # None /\ cache.data.list # <<>>

\* lines 203-204: notam_cache['data'] and notam_cache['expires'] and
\* now < notam_cache['expires']
CacheIsFresh(cache, t) ==
    HasData(cache) /\ cache.expires # NoExpiry /\ t < cache.expires

\* fetch_live_notams at time t, the archive answering upstream if it is asked:
\* the list returned, the cache left behind, and whether the archive was asked
FetchLiveNotams(cache, upstream, t) ==
    IF CacheIsFresh(cache, t)
    THEN [notams |-> cache.data.list, cache |-> cache, contacted |-> FALSE]
    ELSE IF upstream = Unreachable
    THEN [notams |-> <<>>, cache |-> cache, contacted |-> TRUE]
    ELSE [notams |-> upstream.list,
          cache |-> [data |-> [list |-> upstream.list], expires |-> t + NotamTtl],
          contacted |-> TRUE]

Abs(x) == IF x < 0 THEN 0 - x ELSE x

\* distance_nm of lines 797-800 for a NOTAM on the meridian of the centre
\* (lon_diff = 0), where the root of the sum is 60 * |lat_diff|
DistanceNm(coords, center_lat, center_lon) == 60 * Abs(coords.lat - center_lat)

\* notam.get(key) is truthy
Has(notam, key) == key \in DOMAIN notam

\* lines 792-810: include_notam
IncludeNotam(notam, center_lat, center_lon, range_nm) ==
    IF Has(notam, "coordinates")
    THEN DistanceNm(notam.coordinates, center_lat, center_lon) <= range_nm
    ELSE IF Has(notam, "priority") /\ notam.priority = "CRITICAL" THEN TRUE
    ELSE Has(notam, "location")

\* lines 812-819: the distance is written into an included NOTAM
WithDistance(notam, center_lat, center_lon) ==
    IF Has(notam, "coordinates")
    THEN Put(notam, "distance_nm", DistanceNm(notam.coordinates, center_lat, center_lon))
    ELSE notam

\* priority_order.get(x.get('priority', 'NORMAL'), 3)
PriorityOrder(notam) ==
    IF ~Has(notam, "priority") THEN 3
    ELSE CASE notam.priority = "CRITICAL" -> 0
           [] notam.priority = "HIGH" -> 1
           [] notam.priority = "MEDIUM" -> 2
           [] OTHER -> 3

\* x.get('distance_nm', 999)
DistanceKey(notam) == IF Has(notam, "distance_nm") THEN notam.distance_nm ELSE 999

\* the sort key of one NOTAM is below that of another
KeyBelow(a, b) ==
    \/ PriorityOrder(a) < PriorityOrder(b)
    \/ PriorityOrder(a) = PriorityOrder(b) /\ DistanceKey(a) < DistanceKey(b)

RECURSIVE InsertByKey(_, _)
\* a sorted list with one more NOTAM, behind those whose key is not above its own
InsertByKey(sorted, notam) ==
    IF sorted = <<>> THEN <<notam>>
    ELSE IF KeyBelow(notam, sorted[Len(sorted)])
    THEN Append(InsertByKey(SubSeq(sorted, 1, Len(sorted) - 1), notam), sorted[Len(sorted)])
    ELSE Append(sorted, notam)

RECURSIVE SortNotams(_, _)
\* filtered_notams.sort(key=...), a stable sort
SortNotams(list, n) ==
    IF n = 0 THEN <<>> ELSE InsertByKey(SortNotams(list, n - 1), list[n])

RECURSIVE Included(_, _, _, _, _)
\* lines 791-821: the included NOTAMs of the first n, in their order
Included(notams, n, center_lat, center_lon, range_nm) ==
    IF n = 0 THEN <<>>
    ELSE LET rest == Included(notams, n - 1, center_lat, center_lon, range_nm) IN
         IF IncludeNotam(notams[n], center_lat, center_lon, range_nm)
         THEN Append(rest, WithDistance(notams[n], center_lat, center_lon))
         ELSE rest

\* filter_notams_by_location
FilterNotamsByLocation(notams, center_lat, center_lon, range_nm) ==
    LET filtered_notams == Included(notams, Len(notams), center_lat, center_lon, range_nm)
    IN SortNotams(filtered_notams, Len(filtered_notams))

\* lines 1318-1320: the priority filter of the request
PriorityFilter(notams, priority) ==
    LET Keep(n) == Has(n, "priority") /\ n.priority = priority
    IN IF priority # "ALL" THEN SelectSeq(notams, Keep) ELSE notams

\* get_notams, the handler of /api/notams (category = 'ALL'), at time t; within
\* says whether t lies before the expiry the last fetch from the archive set
GetNotams(lat, lon, range_nm, priority, upstream, t) ==
    /\ \E fetch \in {FetchLiveNotams(notam_cache, upstream, t)} :
         /\ notam_cache' = fetch.cache
         /\ notamOut' = [op |-> "notams", range_nm |-> range_nm, priority |-> priority,
                         within |-> (notam_cache.expires # NoExpiry
                                       /\ t < notam_cache.expires),
                         contacted |-> fetch.contacted,
                         failed |-> (fetch.contacted /\ upstream = Unreachable),
                         all_notams |-> fetch.notams,
                         notams |-> PriorityFilter(
                                      FilterNotamsByLocation(fetch.notams, lat, lon, range_nm),
                                      priority)]
    /\ now' = t
    /\ UNCHANGED notNotam

-----------------------------------------------------------------------------
(* radar_database.py: get_connection. Every operation of the store runs    *)
(* inside `with self.get_connection() as conn`, which holds self.lock from *)
(* before the connection is opened until after it is closed. What the      *)
(* operations do inside is the subject of the store section above.         *)

\* the threads that call the store
Callers == {"c1", "c2", "c3"}

\* store_aircraft_contact, store_ship_contact and cleanup_old_data write
WriteOps == {"store_aircraft_contact", "store_ship_contact", "cleanup_old_data"}

\* the five query methods
ReadOps == {"get_aircraft_history", "get_aircraft_summary", "get_flight_events",
            "get_active_aircraft", "get_database_stats"}

\* a thread that is not calling the store
Outside == [pc |-> "outside", op |-> "none"]

\* a lock that lets a reader in next to other readers
LockIsFree_SharedReads(t) ==
    \/ lock = "free"
    \/ /\ ops[t].op \in ReadOps
       /\ \A u \in Callers : ops[u].pc = "inside" => ops[u].op \in ReadOps

\* threading.Lock: free or held, whatever the operation
LockIsFree(t) == lock = "free"

\* a thread calls an operation of the store and reaches `with self.lock`
CallStore(t, op) ==
    /\ ops[t].pc = "outside"
    /\ ops' = [ops EXCEPT ![t] = [pc |-> "waiting", op |-> op]]
    /\ UNCHANGED lock
    /\ UNCHANGED notLock

\* line 161: self.lock is acquired, the connection is opened and yielded
EnterStore(t) ==
    /\ ops[t].pc = "waiting"
    /\ LockIsFree(t)
    /\ lock' = t
    /\ ops' = [ops EXCEPT ![t].pc = "inside"]
    /\ UNCHANGED notLock

\* lines 165-167: the body is over, the connection is closed, the lock released
LeaveStore(t) ==
    /\ ops[t].pc = "inside"
    /\ lock' = IF lock = t THEN "free" ELSE lock
    /\ ops' = [ops EXCEPT ![t] = Outside]
    /\ UNCHANGED notLock

-----------------------------------------------------------------------------
\* ai_server.analyze_flight_phase and ai_server.validate_aircraft_data

\* text as the sequence of its characters
CTR == <<"C", "T", "R">>

\* Python's `sub in text`
Contains(sub, text) ==
    \E i \in 1..(Len(text) - Len(sub) + 1) : SubSeq(text, i, i + Len(sub) - 1) = sub

\* airspace.get('type', 'Class G') if airspace else 'Class G'
AirspaceType(airspace) ==
    IF airspace # None /\ "type" \in DOMAIN airspace THEN airspace.type ELSE "Class G"

\* airspace.get('name', 'Uncontrolled') if airspace else 'Uncontrolled'
AirspaceName(airspace) ==
    IF airspace # None /\ "name" \in DOMAIN airspace THEN airspace.name
    ELSE <<"U", "n", "c", "o", "n", "t", "r", "o", "l", "l", "e", "d">>

OnGround_AltitudeOnly(altitude, speed) == altitude < 100

\* if altitude < 100 and speed < 50
OnGround(altitude, speed) == altitude < 100 /\ speed < 50

GroundPhase(speed) ==
    IF speed < 5 THEN "PARKED"
    ELSE IF speed < 25 THEN "TAXIING"
    ELSE "GROUND OPS"

\* if airspace_type == 'CTR' or 'CTR' in airspace_name
InControlZone(airspace) ==
    AirspaceType(airspace) = "CTR" \/ Contains(CTR, AirspaceName(airspace))

ControlZonePhase(speed, vertical_rate) ==
    IF vertical_rate > 800 THEN "DEPARTURE"
    ELSE IF vertical_rate < -800 THEN "FINAL APPROACH"
    ELSE IF speed < 200 THEN "AIRPORT PATTERN"
    ELSE "TERMINAL AREA"

\* if airspace_type in ['TMA', 'CTA/TMA', 'CTA']
InTerminalArea(airspace) == AirspaceType(airspace) \in {"TMA", "CTA/TMA", "CTA"}

\* the three returns of the TMA/CTA block; when none applies the function goes
\* on to the general analysis
TerminalMatches(altitude, vertical_rate) ==
    vertical_rate > 1000 \/ vertical_rate < -1000 \/ altitude < 10000

TerminalPhase(altitude, vertical_rate) ==
    IF vertical_rate > 1000 THEN "TERMINAL CLIMB"
    ELSE IF vertical_rate < -1000 THEN "TERMINAL DESCENT"
    ELSE "TERMINAL AREA"

LowLevelPhase(speed, vertical_rate) ==
    IF vertical_rate > 500 THEN "TAKEOFF"
    ELSE IF vertical_rate < -500 THEN "APPROACH"
    ELSE IF speed < 200 THEN "PATTERN"
    ELSE "LOW LEVEL"

\* the block under `if abs(vertical_rate) > 300`
VerticalPhase(vertical_rate) ==
    IF vertical_rate > 1500 THEN "RAPID CLIMB"
    ELSE IF vertical_rate > 800 THEN "CLIMBING"
    ELSE IF vertical_rate > 300 THEN "SLOW CLIMB"
    ELSE IF vertical_rate < -1500 THEN "RAPID DESCENT"
    ELSE IF vertical_rate < -800 THEN "DESCENDING"
    ELSE "SLOW DESCENT"    \* vertical_rate < -300, all that is left of abs > 300

LevelPhase(altitude, speed) ==
    IF altitude > 35000 THEN "HIGH CRUISE"
    ELSE IF altitude > 20000 THEN "CRUISE"
    ELSE IF altitude > 10000 THEN "MEDIUM LEVEL"
    ELSE IF speed > 400 THEN "HIGH SPEED"
    ELSE IF speed > 250 THEN "ENROUTE"
    ELSE IF speed > 150 THEN "APPROACH SPEED"
    ELSE "IN FLIGHT"

AnalyzeFlightPhase(altitude, speed, vertical_rate, airspace) ==
    IF OnGround(altitude, speed) THEN GroundPhase(speed)
    ELSE IF InControlZone(airspace) /\ altitude < 3000
        THEN ControlZonePhase(speed, vertical_rate)
    ELSE IF InTerminalArea(airspace) /\ TerminalMatches(altitude, vertical_rate)
        THEN TerminalPhase(altitude, vertical_rate)
    ELSE IF altitude < 3000 THEN LowLevelPhase(speed, vertical_rate)
    ELSE IF Abs(vertical_rate) > 300 THEN VerticalPhase(vertical_rate)
    ELSE LevelPhase(altitude, speed)

\* the status analysis of the aircraft whose summary is being written: the
\* telemetry read from its record, then the phase
FlightStatus ==
    /\ derived.op = "telemetry"
    /\ derived' = [derived EXCEPT
            !.op = "analyze_flight_phase",
            !.phase = AnalyzeFlightPhase(derived.altitude, derived.speed,
                                         derived.vertical_rate, derived.airspace)]
    /\ UNCHANGED notStatus

\* status texts, as the sequence of their characters
PARKED == <<"P", "A", "R", "K", "E", "D">>

CRUISE == <<"C", "R", "U", "I", "S", "E">>

TAXI == <<"T", "A", "X", "I">>

UpperCase == <<"A", "C", "D", "E", "I", "K", "P", "R", "S", "T", "U", "X">>

LowerCase == <<"a", "c", "d", "e", "i", "k", "p", "r", "s", "t", "u", "x">>

\* str.lower()
Lower(text) ==
    [i \in 1..Len(text) |->
        IF \E k \in 1..Len(UpperCase) : UpperCase[k] = text[i]
        THEN LowerCase[CHOOSE k \in 1..Len(UpperCase) : UpperCase[k] = text[i]]
        ELSE text[i]]

\* aircraft.get(key, default)
Get(aircraft, key, default) == IF key \in DOMAIN aircraft THEN aircraft[key] ELSE default

Promoted_Parked(altitude) == IF altitude > 1000 THEN CRUISE ELSE PARKED

\* 'CRUISE' if altitude > 1000 else 'TAXI'
Promoted(altitude) == IF altitude > 1000 THEN CRUISE ELSE TAXI

\* 'PARKED' if speed == 0 else 'TAXI'
Demoted(speed) == IF speed = 0 THEN PARKED ELSE TAXI

\* one round of the loop of validate_aircraft_data: the record as it is appended
ValidateAircraft(aircraft) ==
    LET speed == Get(aircraft, "speed", 0)
        altitude == Get(aircraft, "altitude", 0)
        status == Lower(Get(aircraft, "status", <<>>))
    IN  IF speed > 10 /\ Contains(Lower(PARKED), status)
            THEN Put(aircraft, "status", Promoted(altitude))
        ELSE IF speed < 5 /\ altitude < 100 /\ Contains(Lower(CRUISE), status)
            THEN Put(aircraft, "status", Demoted(speed))
        ELSE aircraft

ValidateAircraftData(aircraft_data) ==
    IF aircraft_data = <<>> THEN aircraft_data
    ELSE [i \in 1..Len(aircraft_data) |-> ValidateAircraft(aircraft_data[i])]

\* fetch_historical_data for a query about active aircraft: the list of the
\* response, repaired; a list once returned may be handed in again
FetchHistoricalData ==
    /\ derived.op \in {"active_aircraft", "validate_aircraft_data"}
    /\ derived' = [op |-> "validate_aircraft_data", given |-> derived.data,
                   data |-> ValidateAircraftData(derived.data)]
    /\ UNCHANGED notStatus

-----------------------------------------------------------------------------
(* Specifications.                                                         *)

InitStore ==
    /\ now = 0
    /\ nextId = 1
    /\ contacts = <<>>
    /\ summary = [h \in {} |-> 0]
    /\ events = <<>>
    /\ last = [op |-> "init", ok |-> TRUE, stage |-> "none", cutoff |-> 0]

InitIndex ==
    /\ index = <<>>
    /\ metadata = <<>>
    /\ rb = [t \in Threads |-> Idle]
    /\ published = [index |-> <<>>, metadata |-> <<>>]
    /\ seen = [who |-> "none", ntotal |-> 0, count |-> 0, complete |-> TRUE]

InitAis ==
    /\ running = FALSE
    /\ cons = <<>>
    /\ vessels = <<>>
    /\ aisOut = [op |-> "none"]

\* no request answered, a parser that found no catalog file and no airspace
\* directory
InitAsk == answer = [op |-> "none"]

InitSsr ==
    /\ ssrParser = SSRCodeParser(NoFile)
    /\ ssrOut = [op |-> "none"]

InitAir ==
    /\ zones = <<>>
    /\ found = [op |-> "none"]

InitTick ==
    /\ tick = [t \in Servers |-> Waiting]
    /\ fetched = 0
    /\ response = [op |-> "none"]

InitNotam ==
    /\ notam_cache = EmptyCache
    /\ notamOut = [op |-> "none"]

InitLock ==
    /\ lock = "free"
    /\ ops = [t \in Callers |-> Outside]

InitScan == scan = Between(<<>>)

InitStatus == derived = [op |-> "none"]

Init ==
    InitStore /\ InitIndex /\ InitAis /\ InitAsk /\ InitSsr /\ InitAir /\ InitTick
    /\ InitNotam /\ InitLock /\ InitScan /\ InitStatus

\* the values time.time() returns; it never runs backwards, and two calls may
\* read the same value
ClockReadings == {0, 150, 300}

ReadClock == {t \in ClockReadings : t >= now}

\* the contact records handed to the store: altitude and squawk
Samples == {<<NullAlt, "1200">>, <<2500, "7700">>, <<GroundAlt, "1200">>}

DBRecords == {[hex |-> h, alt_baro |-> s[1], squawk |-> s[2]] : h \in Hexes, s \in Samples}
                \cup {[hex |-> "", alt_baro |-> NullAlt, squawk |-> "1200"],
                      [alt_baro |-> NullAlt, squawk |-> "1200"]}

Days == {0, 1}

NextDB ==
    \/ \E rec \in DBRecords, fail \in FailPoints, t \in ReadClock :
          nextId <= MaxRows /\ StoreAircraftContact(rec, fail, t) /\ UNCHANGED notStore
    \/ \E days \in Days, t \in ReadClock : CleanupOldData(days, t)

SpecDB == Init /\ [][NextDB]_vars

\* one aircraft climbing and descending: its first four contacts report any of
\* four altitudes, the later ones 2500 ft or none
DetectAltitudes == IF nextId <= 4 THEN {0, 450, 1100, 2500} ELSE {NullAlt, 2500}

DetectRecords == [hex : {"A"}, alt_baro : DetectAltitudes, squawk : {"1200"}]

NextDetect ==
    \E rec \in DetectRecords, t \in ReadClock :
        nextId <= MaxDepth /\ StoreAircraftContact(rec, "none", t) /\ UNCHANGED notStore

SpecDetect == Init /\ [][NextDetect]_vars

\* SpecAI explores the schedules in which the periodic thread's cycles and the
\* /rebuild requests' cycles do not overlap each other; requests that read
\* interleave with every step of a cycle
OthersIdle(t) == \A u \in Threads \ {t} : rb[u].pc = "idle"

NextAI ==
    \/ \E t \in Threads : OthersIdle(t) /\ RbExtract(t)
    \/ \E t \in Threads : RbResetIndex(t)
    \/ \E t \in Threads : RbResetMeta(t)
    \/ \E t \in Threads : RbEmbedAndAdd(t)
    \/ \E t \in Threads : RbExtend(t)
    \/ \E t \in Threads : RbReturn(t)
    \/ AskQuestion("how many aircraft", 30, 5)
    \/ ChatEndpoint("how many aircraft", 30, 3)
    \/ DebugInfo

SpecAI == Init /\ [][NextAI]_vars

\* the messages of the model
Messages ==
    { [UserID |-> 111, Latitude |-> 1, Longitude |-> 1],
      [UserID |-> 111, Latitude |-> 2, Longitude |-> 2, SpeedOverGround |-> 512],
      [UserID |-> 111, SpeedOverGround |-> JsonNull, VesselName |-> "Y"],
      [UserID |-> 222, VesselName |-> " X "],
      [UserID |-> 222, Latitude |-> 3, Longitude |-> 3],
      [UserID |-> 222, Latitude |-> 1, Longitude |-> 1],
      [UserID |-> 222, Latitude |-> 1],
      [Latitude |-> 1, Longitude |-> 1] }

\* the readings of datetime.now(), seconds
VesselClock == {0, 60, 600, 601}

ReadVesselClock == {t \in VesselClock : t >= now}

\* range_nm, in hundredths
Ranges == {100, 500, 5000}

MaxAges == {1, 10}

\* the vessel map under messages, queries and janitor passes
NextVessels ==
    \/ \E m \in Messages, t \in ReadVesselClock : ProcessMessage(m, t)
    \/ \E r \in Ranges, t \in ReadVesselClock : GetVesselsInRange(r, t)
    \/ \E a \in MaxAges, t \in ReadVesselClock : CleanupStaleVessels(a, t)

SpecVessels == Init /\ [][NextVessels]_vars

\* the messages the stream delivers
Feed ==
    { [UserID |-> 111, Latitude |-> 1, Longitude |-> 1],
      [UserID |-> 111, VesselName |-> " X "] }

AisClock == {0, 661}

ReadAisClock == {t \in AisClock : t >= now}

\* the AIS client as airspace_server.py runs it: /api/ais/connect and
\* /api/ais/disconnect, the consumer threads, /api/ais/status and
\* /api/ais/vessels; nothing calls cleanup_stale_vessels
NextAis ==
    \/ Len(cons) < MaxStarts /\ StartConnection
    \/ StopConnection
    \/ \E i \in 1..Len(cons) : WhileCheck(i)
    \/ \E i \in 1..Len(cons) : ConnectFails(i)
    \/ \E i \in 1..Len(cons) : Connected(i)
    \/ \E i \in 1..Len(cons), m \in Feed, t \in ReadAisClock : Receive(i, m, t)
    \/ \E i \in 1..Len(cons) : ConnectionClosed(i)
    \/ \E i \in 1..Len(cons) : AfterLoop(i)
    \/ \E t \in ReadAisClock : GetStatus(t)
    \/ \E t \in ReadAisClock : GetVesselsInRange(5000, t)

SpecAis == Init /\ [][NextAis]_vars

\* the steps consumer thread i takes by itself: the loop test, the end of a
\* connection attempt either way, and the lines after the loop
ConsumerStep(i) ==
    /\ i <= Len(cons)
    /\ WhileCheck(i) \/ ConnectFails(i) \/ Connected(i) \/ AfterLoop(i)

\* a thread that is started runs: each consumer goes on taking its own steps.
\* Nothing promises a frame or the end of a connection
ConsumersRun == \A i \in 1..MaxStarts : WF_vars(ConsumerStep(i))

SpecAisFair == Init /\ [][NextAis]_vars /\ ConsumersRun

\* the consumer on a stream that delivers well-formed frames and frames that
\* are not JSON
Frames == {[UserID |-> 111, VesselName |-> " X "], Garbled}

NextFrames ==
    \/ Len(cons) < MaxStarts /\ StartConnection
    \/ StopConnection
    \/ \E i \in 1..Len(cons) : WhileCheck(i)
    \/ \E i \in 1..Len(cons) : ConnectFails(i)
    \/ \E i \in 1..Len(cons) : Connected(i)
    \/ \E i \in 1..Len(cons), frame \in Frames : Receive(i, frame, now)
    \/ \E i \in 1..Len(cons) : ConnectionClosed(i)
    \/ \E i \in 1..Len(cons) : AfterLoop(i)

SpecFrames == Init /\ [][NextFrames]_vars

\* /api/ais/connect and /api/ais/disconnect in any order, with the consumer
\* threads they start and one position report on the stream
MaxConsumers == 2

NextLifecycle ==
    \/ Len(cons) < MaxConsumers /\ StartConnection
    \/ StopConnection
    \/ \E i \in 1..Len(cons) : WhileCheck(i)
    \/ \E i \in 1..Len(cons) : ConnectFails(i)
    \/ \E i \in 1..Len(cons) : Connected(i)
    \/ \E i \in 1..Len(cons) : Receive(i, [UserID |-> 111, Latitude |-> 1, Longitude |-> 1], now)
    \/ \E i \in 1..Len(cons) : ConnectionClosed(i)
    \/ \E i \in 1..Len(cons) : AfterLoop(i)

SpecLifecycle == Init /\ [][NextLifecycle]_vars

\* the live pair a rebuild cycle leaves of the summaries s when the embedding
\* of those in failed raised; with reset, the pair a request finds after the
\* next cycle has replaced the index and before it has emptied metadata
PairOf(s, failed, reset) ==
    [index |-> IF reset THEN <<>> ELSE Embedded(s, failed, 1),
     metadata |-> Prefix(s, Len(Embedded(s, failed, 1)))]

\* a cycle in which the first embedding raised, or none, and the pair left by
\* one in which none raised as the next cycle's reset finds it
PairKinds == {<<{}, FALSE>>, <<{1}, FALSE>>, <<{}, TRUE>>}

IndexedLists == UNION {[1..n -> IndexTexts] : n \in 0..MaxIndexed}

InitPair ==
    \E s \in IndexedLists, kind \in PairKinds :
        /\ index = PairOf(s, kind[1], kind[2]).index
        /\ metadata = PairOf(s, kind[1], kind[2]).metadata
        /\ rb = [t \in Threads |-> Idle]
        /\ published = [index |-> Embedded(s, kind[1], 1), metadata |-> metadata]
        /\ seen = [who |-> "none", ntotal |-> 0, count |-> 0, complete |-> TRUE]

Thresholds == {30, 55}

Limits == {1, 2}

\* /ask does not look for keywords in the query
AskQueries == {"how many aircraft", "notams"}

NextAsk ==
    \/ \E q \in AskQueries, th \in Thresholds, k \in Limits : AskQuestion(q, th, k)
    \/ \E q \in Queries, th \in Thresholds, k \in Limits : ChatEndpoint(q, th, k)

InitRetrieval ==
    InitStore /\ InitPair /\ InitAis /\ InitAsk /\ InitSsr /\ InitAir /\ InitTick
    /\ InitNotam /\ InitLock /\ InitScan /\ InitStatus

SpecAsk == InitRetrieval /\ [][NextAsk]_vars

\* the catalog files of the model
Catalogs == {NoFile} \cup UNION {[1..n -> CatalogLines] : n \in 0..MaxLines}

InitCatalog ==
    /\ \E file \in Catalogs : ssrParser = SSRCodeParser(file)
    /\ ssrOut = [op |-> "none"]

Squawks == {"0100", "0101", "101", "0102", "7700"}

NextSsr ==
    \/ \E code \in Squawks : GetCodeInfo(code)
    \/ \E squawk \in Squawks : EnrichAircraft(squawk)

InitLoaded ==
    InitStore /\ InitIndex /\ InitAis /\ InitAsk /\ InitCatalog /\ InitAir /\ InitTick
    /\ InitNotam /\ InitLock /\ InitScan /\ InitStatus

SpecSsr == InitLoaded /\ [][NextSsr]_vars

InitZones ==
    /\ zones \in UNION {[1..n -> ZoneKinds] : n \in 0..MaxZones}
    /\ found = [op |-> "none"]

NextAirspace == \E point \in Points : FindAirspaceForPosition(point)

InitParsed ==
    InitStore /\ InitIndex /\ InitAis /\ InitAsk /\ InitSsr /\ InitZones /\ InitTick
    /\ InitNotam /\ InitLock /\ InitScan /\ InitStatus

SpecAirspace == InitParsed /\ [][NextAirspace]_vars

\* the aircraft the receiver reports: one over position 1 squawking 7700, one
\* on the Greenwich meridian (position 2) and one whose record has no hex
Fleet ==
    {[hex |-> "A", lat |-> 55, lon |-> -4, alt_baro |-> 2500, squawk |-> "7700"],
     [hex |-> "B", lat |-> 51, lon |-> 0, alt_baro |-> 2500, squawk |-> "1200"],
     [lat |-> 55, lon |-> -4, alt_baro |-> 2500, squawk |-> "1200"]}

Snapshots == UNION {[1..n -> Fleet] : n \in 0..MaxSnapshot}

\* the zone lists of the ticks: none, one CTR over both positions, and an ATZ
\* over position 1 parsed before that CTR
ZoneLists ==
    {<<>>,
     <<[type |-> "CTR", covers |-> {1, 2}]>>,
     <<[type |-> "ATZ", covers |-> {1}], [type |-> "CTR", covers |-> {1, 2}]>>}

InitCovered ==
    /\ zones \in ZoneLists
    /\ found = [op |-> "none"]

\* the steps that may raise in the next round of a tick: any, in at most one
\* round of the tick
Raising(t) ==
    IF \E k \in 1..Len(tick[t].failed) : tick[t].failed[k] # "none"
    THEN {"none"}
    ELSE {"none", "airspace", "store", "ssr", "registry"}

\* one thread serving the ticks one after the other, all within one reading of
\* the clock
NextTick ==
    \/ \E data \in Snapshots : fetched < MaxTicks /\ ProxyFetch("s1", data)
    \/ ProxyFetchFails("s1")
    \/ \E fail \in Raising("s1") : nextId <= MaxRows /\ ProxyAircraft("s1", fail, now)
    \/ ProxyReturn("s1")

InitServing ==
    InitStore /\ InitIndex /\ InitAis /\ InitAsk /\ InitSsr /\ InitCovered /\ InitTick
    /\ InitNotam /\ InitLock /\ InitScan /\ InitStatus

SpecTick == InitServing /\ [][NextTick]_vars

\* the snapshots of the concurrent ticks: aircraft A, alone or followed by B
Tracked == {f \in Fleet : ~NoHex(f)}

TrackedSnapshots == {d \in Snapshots : d # <<>> /\ \A k \in 1..Len(d) : d[k] \in Tracked}

\* two threads serving ticks at the same time, no step raising
NextTicks ==
    \/ \E t \in Servers, data \in TrackedSnapshots : fetched < MaxTicks /\ ProxyFetch(t, data)
    \/ \E t \in Servers, ts \in ReadClock : nextId <= MaxRows /\ ProxyAircraft(t, "none", ts)
    \/ \E t \in Servers : ProxyReturn(t)

SpecTicks == InitServing /\ [][NextTicks]_vars

\* the NOTAMs of the archive: with coordinates 60 nm and 120 nm from the
\* centre, with a location only, or with neither; of NORMAL and CRITICAL priority
Notams ==
    {[id |-> "near", coordinates |-> [lat |-> 1, lon |-> 0], priority |-> "NORMAL"],
     [id |-> "far", coordinates |-> [lat |-> 2, lon |-> 0], priority |-> "NORMAL"],
     [id |-> "far critical", coordinates |-> [lat |-> 2, lon |-> 0], priority |-> "CRITICAL"],
     [id |-> "critical", priority |-> "CRITICAL"],
     [id |-> "airport", location |-> "EGPK", priority |-> "HIGH"],
     [id |-> "bare"]}

NotamLists == UNION {[1..n -> Notams] : n \in 0..MaxNotams}


\* the readings of the clock, a quarter of an hour apart
NotamClock == {t \in {0, 900, 1800, 2700} : t >= now}

\* the answers of the archive under SpecNotam: no answer, or a list of up to
\* MaxNotams NOTAMs that every request of the model is given back
NearLists == {l \in NotamLists : \A k \in 1..Len(l) : l[k].id \in {"near", "critical"}}

\* requests centred on (0, 0) with a range of 100 nm, the archive answering or not
NextNotam ==
    \E upstream \in {Unreachable} \cup {[list |-> l] : l \in NearLists}, t \in NotamClock :
        GetNotams(0, 0, 100, "ALL", upstream, t)

SpecNotam == Init /\ [][NextNotam]_vars

\* a cache filled at time 0 with any list of the archive
InitFilled ==
    /\ notam_cache \in {[data |-> [list |-> l], expires |-> NotamTtl] : l \in NotamLists}
    /\ notamOut = [op |-> "none"]

InitCached ==
    InitStore /\ InitIndex /\ InitAis /\ InitAsk /\ InitSsr /\ InitAir /\ InitTick
    /\ InitFilled /\ InitLock /\ InitScan /\ InitStatus

\* requests centred on (0, 0) with a range of 100 nm or 150 nm, served while the
\* cache is fresh
NextFilter ==
    \E range_nm \in {100, 150}, priority \in {"ALL", "CRITICAL"}, t \in {0, 900} :
        t >= now /\ GetNotams(0, 0, range_nm, priority, Unreachable, t)

SpecFilter == InitCached /\ [][NextFilter]_vars

NextLock ==
    \/ \E t \in Callers, op \in WriteOps \cup ReadOps : CallStore(t, op)
    \/ \E t \in Callers : EnterStore(t)
    \/ \E t \in Callers : LeaveStore(t)

SpecLock == Init /\ [][NextLock]_vars

\* the telemetry the status analysis is given: each threshold of the function
\* with the value on either side of it
PhaseAltitudes == {0, 99, 100, 2999, 3000, 9999, 10000, 10001, 20000, 20001, 35000, 35001}

PhaseSpeeds == {0, 4, 5, 24, 25, 49, 50, 150, 151, 199, 200, 250, 251, 400, 401}

PhaseRates == {0, 300, 301, 500, 501, 800, 801, 1000, 1001, 1500, 1501,
               -300, -301, -500, -501, -800, -801, -1000, -1001, -1500, -1501}

\* no airspace, a control zone by type, one by name only, the three terminal
\* types, one that is both, and uncontrolled airspace
PhaseAirspaces ==
    {None,
     [type |-> "CTR", name |-> <<"E", "G", "P", "K">>],
     [type |-> "ATZ", name |-> <<"P", "K", " ", "C", "T", "R">>],
     [type |-> "TMA", name |-> <<"S", "C", "O", "T">>],
     [type |-> "CTA/TMA", name |-> <<"S", "C", "O", "T">>],
     [type |-> "CTA", name |-> <<"C", "T", "R", " ", "N">>],
     [type |-> "Class G", name |-> <<"O", "P", "E", "N">>]}

InitTelemetry ==
    derived \in {[op |-> "telemetry", altitude |-> altitude, speed |-> speed,
                  vertical_rate |-> vertical_rate, airspace |-> airspace, phase |-> ""] :
                    altitude \in PhaseAltitudes, speed \in PhaseSpeeds,
                    vertical_rate \in PhaseRates, airspace \in PhaseAirspaces}

InitPhase ==
    InitStore /\ InitIndex /\ InitAis /\ InitAsk /\ InitSsr /\ InitAir /\ InitTick
    /\ InitNotam /\ InitLock /\ InitScan /\ InitTelemetry

NextPhase == FlightStatus

SpecPhase == InitPhase /\ [][NextPhase]_vars

\* the records of an active-aircraft response: speed and altitude on either side
\* of each threshold of the repair, the three status labels, a status in mixed
\* case, and rows as the store returns them, without any of the three keys
MaxAircraft == 2

RepairSpeeds == {0, 4, 5, 10, 11}

RepairAltitudes == {99, 100, 1000, 1001}

ActiveAircraft ==
    {[speed |-> speed, altitude |-> altitude, status |-> status] :
        speed \in RepairSpeeds, altitude \in RepairAltitudes,
        status \in {PARKED, CRUISE, TAXI}}
    \cup {[speed |-> 11, altitude |-> 99, status |-> <<"P", "a", "r", "k", "e", "d">>],
          [speed |-> 0, altitude |-> 99, status |-> Lower(CRUISE) \o <<"/">> \o Lower(PARKED)],
          [speed |-> 11, status |-> PARKED],
          [status |-> CRUISE],
          [hex |-> "A", alt_baro |-> 2500]}

ActiveLists == UNION {[1..n -> ActiveAircraft] : n \in 0..MaxAircraft}

InitActive == derived \in {[op |-> "active_aircraft", data |-> data] : data \in ActiveLists}

InitHistorical ==
    InitStore /\ InitIndex /\ InitAis /\ InitAsk /\ InitSsr /\ InitAir /\ InitTick
    /\ InitNotam /\ InitLock /\ InitScan /\ InitActive

NextHistorical == FetchHistoricalData

SpecHistorical == InitHistorical /\ [][NextHistorical]_vars

\* a map that holds one vessel, the consumer merging position reports of that
\* vessel and of a new one, and requests for the vessels in range
KnownVessel == [mmsi |-> 111, last_update |-> 0, lat |-> 1, lon |-> 1, speed |-> 10]

Reports ==
    { [UserID |-> 111, Latitude |-> 2, Longitude |-> 2, SpeedOverGround |-> 512],
      [UserID |-> 222, Latitude |-> 1, Longitude |-> 1] }

InitKnown ==
    /\ running = TRUE
    /\ cons = <<[NewConsumer EXCEPT !.pc = "listen"]>>
    /\ vessels = <<KnownVessel>>
    /\ aisOut = [op |-> "none"]
    /\ scan = Between(<<KnownVessel>>)

InitSailing ==
    InitStore /\ InitIndex /\ InitKnown /\ InitAsk /\ InitSsr /\ InitAir /\ InitTick
    /\ InitNotam /\ InitLock /\ InitStatus

NextReaders ==
    \/ \E message \in Reports : MergeBegin(message, 60)
    \/ MergeAssign
    \/ MergeStore
    \/ \E range_nm \in {500, 5000} : ReadBegin(range_nm, 60)
    \/ ReadNext

SpecReaders == InitSailing /\ [][NextReaders]_vars

Next == NextPhase \/ NextHistorical \/ NextReaders \/ NextFrames \/ NextLifecycle \/ NextDB \/ NextTick \/ NextNotam \/ NextFilter \/ NextLock \/ NextAI \/ NextVessels \/ NextAis \/ NextAsk \/ NextSsr \/ NextAirspace

Spec == Init /\ [][Next]_vars

-----------------------------------------------------------------------------
(* Properties.                                                             *)

\* a step in which store_aircraft_contact ran
StoreStep == last'.op = "store" /\ dbVars' # dbVars

\* a step in which store_aircraft_contact committed a contact
StoredStep == StoreStep /\ last'.ok

\* the contact row a StoredStep appended
NewContact == contacts'[Len(contacts')]

\* the event rows a step appended
NewEvents == SubSeq(events', Len(events) + 1, Len(events'))

NewKinds == {NewEvents[i].event_type : i \in 1..Len(NewEvents)}

ContactsOf(h) == {i \in 1..Len(contacts) : contacts[i].hex = h}

\* C1: store_aircraft_contact is all-or-nothing. A call that reports success has
\* appended the contact row, has upserted the summary of its hex (last_seen is
\* the contact's timestamp, the count is one more) and has appended the events
\* of that contact, the emergency event of an emergency squawk among them; a
\* call that reports failure leaves the three tables as they were.
C1_StoreAllOrNothing ==
    [][StoreStep =>
         \/ /\ last'.ok
            /\ Len(contacts') = Len(contacts) + 1
            /\ SubSeq(contacts', 1, Len(contacts)) = contacts
            /\ NewContact.hex \in DOMAIN summary'
            /\ summary'[NewContact.hex].last_seen = NewContact.timestamp
            /\ summary'[NewContact.hex].total_contacts =
                 IF NewContact.hex \in DOMAIN summary
                 THEN summary[NewContact.hex].total_contacts + 1 ELSE 1
            /\ SubSeq(events', 1, Len(events)) = events
            /\ \A i \in 1..Len(NewEvents) :
                 /\ NewEvents[i].hex = NewContact.hex
                 /\ NewEvents[i].timestamp = NewContact.timestamp
            /\ NewContact.squawk \in {"7500", "7600", "7700"}
                 => "EMERGENCY_SQUAWK" \in NewKinds
         \/ /\ ~last'.ok
            /\ UNCHANGED <<contacts, summary, events>>
      ]_vars

\* C1 witness: a store has failed in the event detector, after the contact row
\* and the summary were written to its transaction, on a store that holds rows
\* and events of earlier calls
C1_Witness ==
    /\ last.op = "store" /\ ~last.ok /\ last.stage = "events"
    /\ Len(contacts) >= 2
    /\ events # <<>>

\* C5: for every hex that has a summary, first_seen <= last_seen, and every
\* contact row of the hex has first_seen <= timestamp <= last_seen.
C5_SummarySpansContacts ==
    \A h \in DOMAIN summary :
        /\ summary[h].first_seen <= summary[h].last_seen
        /\ \A i \in ContactsOf(h) :
             /\ summary[h].first_seen <= contacts[i].timestamp
             /\ contacts[i].timestamp <= summary[h].last_seen

\* C5 witness: after stores and a cleanup that deleted rows, a hex has two
\* contacts at different times
C5_Witness ==
    /\ Len(contacts) < nextId - 1
    /\ \E h \in DOMAIN summary :
         /\ summary[h].first_seen < summary[h].last_seen
         /\ Cardinality(ContactsOf(h)) >= 2

\* a contact row that matches an event row
HasContact(e) ==
    \E i \in 1..Len(contacts) :
        /\ contacts[i].hex = e.hex
        /\ contacts[i].timestamp = e.timestamp
        /\ contacts[i].squawk \in {"7500", "7600", "7700"}

EmergencyEvents == {i \in 1..Len(events) : events[i].event_type = "EMERGENCY_SQUAWK"}

\* C6 as claimed: every EMERGENCY_SQUAWK event row has a stored contact with the
\* same hex and timestamp whose squawk is 7500, 7600 or 7700.
C6_EmergencyEventHasContact ==
    \A i \in EmergencyEvents : HasContact(events[i])

\* C6 as amended: a store that commits a contact appends an EMERGENCY_SQUAWK
\* event exactly when the contact's squawk is 7500, 7600 or 7700, with the
\* contact's hex, timestamp and squawk; and an EMERGENCY_SQUAWK event row that
\* has such a contact keeps it in every step but a cleanup (which deletes
\* contacts and keeps the events).
C6_EmergencyIffSquawk ==
    [][/\ StoredStep =>
            /\ ("EMERGENCY_SQUAWK" \in NewKinds)
                 <=> (NewContact.squawk \in {"7500", "7600", "7700"})
            /\ \A i \in 1..Len(NewEvents) :
                 NewEvents[i].event_type = "EMERGENCY_SQUAWK" =>
                    /\ NewEvents[i].hex = NewContact.hex
                    /\ NewEvents[i].timestamp = NewContact.timestamp
                    /\ NewEvents[i].squawk_code = NewContact.squawk
       /\ \A i \in EmergencyEvents :
             HasContact(events[i]) => (HasContact(events[i])' \/ last'.op = "cleanup")
      ]_vars

\* C6 witness: one emergency event whose contact cleanup has deleted, next to
\* one whose contact is stored
C6_Witness ==
    /\ \E i \in EmergencyEvents : ~HasContact(events[i])
    /\ \E i \in EmergencyEvents : HasContact(events[i])

\* C9 as claimed: no two rows of flight_events have the same hex, timestamp and
\* event kind.
C9_NoDuplicateEvents ==
    \A i, j \in 1..Len(events) :
        (/\ events[i].hex = events[j].hex
         /\ events[i].timestamp = events[j].timestamp
         /\ events[i].event_type = events[j].event_type) => i = j

\* C10: after cleanup returns, no contact is older than the cutoff, every
\* summary has a contact left and its first_seen is the smallest timestamp of
\* the contacts left for its hex.
C10_CleanupPostcondition ==
    last.op = "cleanup" =>
        /\ \A i \in 1..Len(contacts) : contacts[i].timestamp >= last.cutoff
        /\ \A h \in DOMAIN summary :
             /\ ContactsOf(h) # {}
             /\ \A i \in ContactsOf(h) : summary[h].first_seen <= contacts[i].timestamp
             /\ \E i \in ContactsOf(h) : summary[h].first_seen = contacts[i].timestamp

\* C10 witness: a cleanup has deleted rows and left a hex whose older contact is
\* gone, so that its first_seen had to move
C10_Witness ==
    /\ last.op = "cleanup"
    /\ Len(contacts) < nextId - 1
    /\ \E h \in DOMAIN summary :
         /\ summary[h].total_contacts >= 2
         /\ Cardinality(ContactsOf(h)) = 1
         /\ summary[h].first_seen > 0

\* the contacts of hex h less than 300 s older than ts
Within300(cs, h, ts) == {i \in 1..Len(cs) : cs[i].hex = h /\ ts - cs[i].timestamp < 300}

\* five of the contacts W, none of them older than one left out
FiveLatest(cs, W) ==
    {R \in SUBSET W :
        /\ Cardinality(R) = 5
        /\ \A i \in R : \A j \in W \ R : cs[i].timestamp >= cs[j].timestamp}

\* the results a query for the five latest contacts of hex h within 300 s of ts
\* may give, the contact stored at ts among the candidates
LastFiveOf(cs, h, ts) ==
    IF Cardinality(Within300(cs, h, ts)) <= 5
    THEN {Within300(cs, h, ts)}
    ELSE FiveLatest(cs, Within300(cs, h, ts))

\* the altitude a contact row reports, an absent one counting as 0
AltOf(r) == IF r.alt_baro = NullAlt THEN 0 ELSE r.alt_baro

MinOf(S) == CHOOSE x \in S : \A y \in S : x <= y

\* the takeoff rule as claimed, on the contacts R
ClaimedTakeoff(cs, R, cur) ==
    LET alts == {AltOf(cs[i]) : i \in R} IN
    /\ alts # {}
    /\ MinOf(alts) < 500
    /\ cur > 1000
    /\ cur - MinOf(alts) > 800

\* the takeoff rule of the code, on the contacts R
AmendedTakeoff(cs, R, cur) ==
    LET alts == {AltOf(cs[i]) : i \in R} \ {0} IN
    /\ Cardinality(R) >= 3
    /\ cur > 1000
    /\ alts # {}
    /\ MinOf(alts) < 500
    /\ cur - MinOf(alts) > 800

\* the TAKEOFF rows among the events a step appended
NewRows(kind) == {i \in 1..Len(NewEvents) : NewEvents[i].event_type = kind}

\* C7 as claimed: a stored contact gets a TAKEOFF event exactly when, over the
\* last (up to five) contacts of its hex within 300 s, the minimum altitude is
\* below 500, the current altitude is above 1000 and exceeds the minimum by more
\* than 800.
C7_TakeoffAsClaimed ==
    [][StoredStep =>
         \E c \in {NewContact} : \E rows \in {NewRows("TAKEOFF")} :
         \E R \in LastFiveOf(contacts', c.hex, c.timestamp) :
            (rows # {}) <=> ClaimedTakeoff(contacts', R, AltOf(c))
      ]_vars

\* C7 as amended: a stored contact gets a TAKEOFF event exactly when the query
\* for the five latest contacts of its hex within 300 s (the stored contact
\* included) returns at least three contacts, the current altitude is above 1000,
\* and the minimum of the non-zero altitudes among them is below 500 and more
\* than 800 below the current altitude; the event is recorded once, with the
\* current altitude.
C7_TakeoffRule ==
    [][StoredStep =>
         \E c \in {NewContact} : \E rows \in {NewRows("TAKEOFF")} :
         /\ \E R \in LastFiveOf(contacts', c.hex, c.timestamp) :
              (rows # {}) <=> AmendedTakeoff(contacts', R, AltOf(c))
         /\ Cardinality(rows) <= 1
         /\ \A i \in rows : NewEvents[i].altitude = AltOf(c)
      ]_vars

TakeoffEvents == {i \in 1..Len(events) : events[i].event_type = "TAKEOFF"}
LandingEvents == {i \in 1..Len(events) : events[i].event_type = "LANDING"}

\* C7 witness: four contacts of one aircraft at 0, 450, 450 and 2500 ft within
\* one window have given exactly one TAKEOFF event, with altitude 2500
C7_Witness ==
    /\ Len(contacts) = 4
    /\ contacts[1].alt_baro = 0 /\ contacts[2].alt_baro = 450
    /\ contacts[3].alt_baro = 450 /\ contacts[4].alt_baro = 2500
    /\ contacts[1].timestamp = 0 /\ contacts[2].timestamp = 0
    /\ contacts[3].timestamp = 150 /\ contacts[4].timestamp = 150
    /\ Cardinality(TakeoffEvents) = 1
    /\ \A i \in TakeoffEvents : events[i].altitude = 2500 /\ events[i].timestamp = 150

\* the landing rule as claimed, on the contacts R
ClaimedLanding(cs, R, cur) ==
    /\ cur < 500
    /\ \E i \in R : AltOf(cs[i]) > 2000

\* the landing rule of the code, on the contacts R
AmendedLanding(cs, R, cur) ==
    /\ Cardinality(R) >= 3
    /\ cur < 500
    /\ \E i \in R : AltOf(cs[i]) > 2000

\* C8 as claimed: a stored contact gets a LANDING event exactly when the current
\* altitude is below 500 and one of the last (up to five) contacts of its hex
\* within 300 s has an altitude above 2000.
C8_LandingAsClaimed ==
    [][StoredStep =>
         \E c \in {NewContact} : \E rows \in {NewRows("LANDING")} :
         \E R \in LastFiveOf(contacts', c.hex, c.timestamp) :
            (rows # {}) <=> ClaimedLanding(contacts', R, AltOf(c))
      ]_vars

\* C8 as amended: a stored contact gets a LANDING event exactly when the query
\* for the five latest contacts of its hex within 300 s (the stored contact
\* included) returns at least three contacts, the current altitude is below 500
\* and one of the contacts returned has an altitude above 2000.
C8_LandingRule ==
    [][StoredStep =>
         \E c \in {NewContact} : \E rows \in {NewRows("LANDING")} :
         /\ \E R \in LastFiveOf(contacts', c.hex, c.timestamp) :
              (rows # {}) <=> AmendedLanding(contacts', R, AltOf(c))
         /\ Cardinality(rows) <= 1
         /\ \A i \in rows : NewEvents[i].altitude = AltOf(c)
      ]_vars

\* C8 witness: six contacts within one window, the first at 2500 ft, three at
\* 450 ft and two without an altitude: the third, fourth and fifth got a LANDING
\* event (the fifth with altitude 0); the sixth, whose five latest contacts no
\* more include the first, got none
C8_Witness ==
    /\ Len(contacts) = 6
    /\ contacts[1].alt_baro = 2500 /\ contacts[1].timestamp = 0
    /\ \A i \in 2..4 : contacts[i].alt_baro = 450
    /\ \A i \in 5..6 : contacts[i].alt_baro = NullAlt
    /\ \A i \in 2..6 : contacts[i].timestamp = 150
    /\ Cardinality(LandingEvents) = 3
    /\ \E i \in LandingEvents : events[i].altitude = 0

\* C2 as claimed: every /ask and /chat request reads the pair a complete rebuild
\* cycle left: the previous one's until the running cycle has built its own.
C2_ReadersSeeCompletePair ==
    seen.who \in {"ask", "chat"} => seen.complete

\* C3 as claimed: every observer reads as many vectors as metadata entries.
C3_SizesAgree ==
    seen.who # "none" => seen.ntotal = seen.count

\* C4 as claimed: a cycle that ends with nothing indexed (no summaries, or no
\* embedding succeeded) leaves the live index and metadata as it found them.
C4_NothingIndexedKeepsLive ==
    \A t \in Threads :
        (rb[t].pc = "done" /\ rb[t].embs = <<>>) => LivePair = rb[t].before[1]

-----------------------------------------------------------------------------
(* Properties of the AIS client.                                           *)

\* the consumers that are connecting or connected
Attempting == {i \in 1..Len(cons) : cons[i].pc \in {"connect", "listen"}}

\* a step in which consumer i leaves _connect_websocket
Leaves(i) == cons[i].pc = "after" /\ cons'[i].pc = "done"

\* C11 as claimed: with the failures counted since the last successful receive,
\* a consumer that has counted 5 makes no further connection attempt.
C11_HaltsAfterFiveSinceReceive ==
    \A i \in 1..Len(cons) : cons[i].sinceReceive >= 5 => i \notin Attempting

\* C11 as amended: with the failures counted since the last successful
\* connection, a consumer that has counted 5 makes no further connection
\* attempt; when it leaves its loop with that count it sets running false; no
\* consumer sets running false on leaving with a smaller count; a consumer that
\* has left stays so; and get_status reports running as connected.
C11_HaltsAfterFiveSinceConnect ==
    [][/\ \A i \in 1..Len(cons') : cons'[i].sinceConnect >= 5 => cons'[i].pc \notin {"connect", "listen"}
       /\ \A i \in 1..Len(cons) :
            /\ (Leaves(i) /\ cons[i].sinceConnect >= 5) => ~running'
            /\ (Leaves(i) /\ running /\ ~running') => cons[i].sinceConnect = 5
            /\ cons[i].pc = "done" => cons'[i].pc = "done"
       /\ (aisOut'.op = "status" /\ aisOut' # aisOut) => (aisOut'.connected = running')
      ]_vars

\* C11 witness: a consumer that once received a message has left after five
\* failed connections in a row, and get_status has reported not connected
C11_Witness ==
    /\ Len(cons) >= 1
    /\ cons[1].pc = "done" /\ cons[1].retry_count = 5 /\ cons[1].sinceConnect = 5
    /\ ~running
    /\ vessels # <<>>
    /\ aisOut.op = "status" /\ ~aisOut.connected

\* C14 as claimed: no vessel stays in the map for more than TTL + 60 s after
\* its last update (TTL = 600 s).
C14_StaleVesselRemoved ==
    \A k \in 1..Len(vessels) : now - vessels[k]["last_update"] <= 600 + 60

\* a step that processed a message
MessageStep ==
    /\ aisOut'.op = "message"
    /\ <<vessels, now, aisOut>>' # <<vessels, now, aisOut>>

\* the vessel fields a message carries
Carried(message) ==
    {f \in {"lat"} : "Latitude" \in DOMAIN message}
      \cup {f \in {"lon"} : "Longitude" \in DOMAIN message}
      \cup {f \in {"speed"} : "SpeedOverGround" \in DOMAIN message}
      \cup {f \in {"name"} : "VesselName" \in DOMAIN message}

\* a message one of whose numbers is null
CarriesNull(message) ==
    \E k \in DOMAIN message \ {"VesselName"} : message[k] = JsonNull

\* the vessel of an mmsi in a map
VesselOf(vs, mmsi) == vs[CHOOSE k \in 1..Len(vs) : vs[k]["mmsi"] = mmsi]

Known(vs) == {vs[k]["mmsi"] : k \in 1..Len(vs)}

\* C12: a processed message leaves every known vessel in the map with every
\* field it had; it changes no field of another vessel and, of its own vessel,
\* none but last_update and the fields it carries; its vessel's last_update is
\* the processing time; and a message for an mmsi, none of whose values is
\* null, leaves a vessel for this mmsi in the map.
C12_PartialMerge ==
    [][MessageStep =>
         \E message \in {aisOut'.message} :
         /\ \A n \in Known(vessels) :
              /\ n \in Known(vessels')
              /\ DOMAIN VesselOf(vessels, n) \subseteq DOMAIN VesselOf(vessels', n)
              /\ \A f \in DOMAIN VesselOf(vessels, n) :
                   \/ VesselOf(vessels', n)[f] = VesselOf(vessels, n)[f]
                   \/ /\ "UserID" \in DOMAIN message
                      /\ message["UserID"] = n
                      /\ f \in Carried(message) \cup {"last_update"}
         /\ \A n \in Known(vessels') :
              ("UserID" \in DOMAIN message /\ message["UserID"] = n)
                 => VesselOf(vessels', n)["last_update"] = now'
         /\ ("UserID" \in DOMAIN message /\ ~CarriesNull(message))
              => message["UserID"] \in Known(vessels')
      ]_vars

\* C12 witness: vessel 111, known with a position and a speed since time 0, has
\* at time 600 got the message that carries a null speed and a name: it keeps
\* position and speed and has the new last_update
C12_Witness ==
    /\ aisOut.op = "message"
    /\ "VesselName" \in DOMAIN aisOut.message /\ aisOut.message["UserID"] = 111
    /\ now = 600
    /\ 111 \in Known(vessels)
    /\ DOMAIN VesselOf(vessels, 111) = {"mmsi", "last_update", "lat", "lon", "speed"}
    /\ VesselOf(vessels, 111)["speed"] = 51
    /\ VesselOf(vessels, 111)["lat"] = 2
    /\ VesselOf(vessels, 111)["last_update"] = 600

\* C13 as claimed: after a janitor pass with TTL T (minutes), every vessel in
\* the map has now - last_update < T.
C13_AllYoungerThanTTL ==
    aisOut.op = "cleanup" =>
        \A k \in 1..Len(vessels) :
            now - vessels[k]["last_update"] < aisOut.max_age_minutes * 60

\* C13 as amended: after a janitor pass with TTL T (minutes), every vessel in
\* the map has now - last_update <= T.
C13_NoneOlderThanTTL ==
    aisOut.op = "cleanup" =>
        \A k \in 1..Len(vessels) :
            now - vessels[k]["last_update"] <= aisOut.max_age_minutes * 60

\* C13 witness: the pass with TTL 10 at time 601 has left one vessel, updated
\* at time 60
C13_Witness ==
    /\ aisOut.op = "cleanup" /\ aisOut.max_age_minutes = 10
    /\ now = 601
    /\ Len(vessels) = 1
    /\ vessels[1]["last_update"] = 60

C15_Witness ==
    /\ aisOut.op = "range" /\ now = 601
    /\ Len(vessels) = 2 /\ vessels[1]["mmsi"] = 222
    /\ Len(aisOut.list) = 2
    /\ aisOut.list[1].mmsi = 111 /\ aisOut.list[2].mmsi = 222

-----------------------------------------------------------------------------
(* Properties of /ask and /chat.                                           *)

\* C16: /ask returns at most max_results entries, each with a score that is at
\* least the threshold, in non-increasing order of score.
C16_AskResults ==
    answer.op = "ask" =>
        /\ Len(answer.results) <= answer.k
        /\ \A i \in 1..Len(answer.results) : answer.results[i].score >= answer.threshold
        /\ \A i, j \in 1..Len(answer.results) :
             i < j => answer.results[i].score >= answer.results[j].score

\* C16 witness: of an index of four texts, three of which pass the threshold,
\* /ask has returned the best two, the better first
C16_Witness ==
    /\ answer.op = "ask" /\ answer.query = "how many aircraft"
    /\ answer.threshold = 30 /\ answer.k = 2
    /\ index = metadata /\ Len(metadata) = 4
    /\ \E i \in 1..4 : metadata[i] = "Weather w"
    /\ answer.results = <<[text |-> "METAR m", score |-> 70], [text |-> "ADS-B a", score |-> 50]>>

\* the candidates of a /chat request with an intent: the texts of the top
\* min(3k, index size) hits whose score is at least the threshold, best first
Candidates ==
    PassingMessages(index, metadata, answer.query, answer.threshold,
                    Min2(3 * answer.k, Len(metadata)))

\* whether a text matches the intent /chat finds in the query: ADS-B for a
\* query with an aircraft keyword, METAR for one with weather keywords only
Matches(query, text) ==
    IF query \in {"how many aircraft", "aircraft weather"} THEN text = "ADS-B a"
    ELSE text = "METAR m"

\* C17: for a query with aircraft or weather intent, /chat returns the
\* candidates that match the intent, best first, followed by candidates that
\* do not, the whole cut to k entries.
C17_IntentFirst ==
    (answer.op = "chat" /\ answer.query # "notams" /\ metadata # <<>>) =>
        LET MatchesIntent(text) == Matches(answer.query, text)
            matching == SelectSeq(Candidates, MatchesIntent)
        IN /\ Len(answer.results) = Min2(answer.k, Len(Candidates))
           /\ \A i \in 1..Len(answer.results) :
                IF i <= Len(matching) THEN answer.results[i] = matching[i]
                ELSE /\ ~MatchesIntent(answer.results[i])
                     /\ \E c \in 1..Len(Candidates) : Candidates[c] = answer.results[i]

\* C17 witness: the index holds a METAR, which scores 70 for the query, and an
\* ADS-B summary, which scores 50; /chat with k = 1 has returned the summary
C17_Witness ==
    /\ answer.op = "chat" /\ answer.query = "how many aircraft"
    /\ answer.threshold = 30 /\ answer.k = 1
    /\ index = metadata
    /\ \E i \in 1..Len(metadata) : metadata[i] = "METAR m"
    /\ answer.results = <<"ADS-B a">>

-----------------------------------------------------------------------------
(* Properties of the SSR catalog.                                          *)

\* C18 as claimed: the ssr data attached to an aircraft that squawks 7500, 7600
\* or 7700 has priority CRITICAL and is_alert true.
C18_EmergencySquawkCritical ==
    (ssrOut.op = "enrich" /\ ssrOut.squawk \in {"7500", "7600", "7700"}) =>
        (ssrOut.ssr.priority = "CRITICAL" /\ ssrOut.ssr.is_alert)

\* the lines of the catalog file that give a range of codes A-B
RangeLines ==
    IF ssrParser.file = NoFile THEN {}
    ELSE {i \in 1..Len(ssrParser.file) :
            /\ StartsWithDigit(ssrParser.file[i])
            /\ HasDash(MatchGroups(ssrParser.file[i]).code_range)
            /\ WithoutDash(MatchGroups(ssrParser.file[i]).code_range) # ""}

\* C19 as claimed: for every line of the catalog that gives a range A-B, the
\* lookup of a code from A to B returns a record with the line's description
\* and the category derived from it.
C19_RangeLineLookup ==
    ssrOut.op = "lookup" =>
        \A i \in RangeLines :
            LET g == MatchGroups(ssrParser.file[i])
                n == IntOf(ZFill4(ssrOut.code))
            IN (IntOf(g.code_start) <= n /\ n <= IntOf(WithoutDash(g.code_range))) =>
                  /\ ~ssrOut.info.none
                  /\ ssrOut.info.description = g.description
                  /\ ssrOut.info.categories = {Categorize(g.description).category}

-----------------------------------------------------------------------------
(* Properties of the airspace lookup.                                      *)

\* the place of a type among the high-priority types
TypeRank(type) ==
    CASE type = "CTR" -> 1 [] type = "CTA/TMA" -> 2 [] type = "TMA" -> 3 [] OTHER -> 4

\* C20: every zone find_airspace_for_position returns contains the point; if
\* a CTR, CTA/TMA or TMA zone contains the point, the result holds zones of
\* these types only, CTR before CTA/TMA before TMA; and it holds a zone of
\* another type only if no zone of these three types contains the point.
C20_PriorityFirst ==
    found.op = "find" =>
        LET high == {i \in 1..Len(zones) :
                        TypeRank(zones[i].type) <= 3 /\ found.point \in zones[i].covers}
            type(r) == zones[found.zones[r]].type
        IN /\ \A r \in 1..Len(found.zones) : found.point \in zones[found.zones[r]].covers
           /\ high # {} =>
                /\ found.zones # <<>>
                /\ \A r \in 1..Len(found.zones) : TypeRank(type(r)) <= 3
                /\ \A q, r \in 1..Len(found.zones) :
                     q < r => TypeRank(type(q)) <= TypeRank(type(r))
           /\ (\E r \in 1..Len(found.zones) : TypeRank(type(r)) = 4) => high = {}

\* C20 witness: an ATZ, a CTA/TMA and a CTR, parsed in this order, contain the
\* point; the lookup has returned the CTR, then the CTA/TMA, and not the ATZ
C20_Witness ==
    /\ found.op = "find" /\ found.point = 1
    /\ Len(zones) = 3
    /\ zones[1].type = "ATZ" /\ zones[2].type = "CTA/TMA" /\ zones[3].type = "CTR"
    /\ \A i \in 1..3 : 1 \in zones[i].covers
    /\ found.zones = <<3, 2>>

\* a tick that fetched its snapshot has returned
Served == response.op = "proxy" /\ response.status = 200

\* C21: in the list a tick returns, every aircraft whose record has lat and lon,
\* whatever their values, has an airspace value, and the value is null or a
\* loaded zone that contains the aircraft's position.
C21_AirspaceNullOrContainingZone ==
    Served =>
        \A k \in 1..Len(response.aircraft) :
            LET aircraft == response.data[k]
                enhanced_ac == response.aircraft[k]
            IN ("lat" \in DOMAIN aircraft /\ "lon" \in DOMAIN aircraft) =>
                 /\ "airspace" \in DOMAIN enhanced_ac
                 /\ \/ enhanced_ac.airspace = None
                    \/ /\ enhanced_ac.airspace.zone \in 1..Len(zones)
                       /\ PointOf(aircraft.lat, aircraft.lon)
                            \in zones[enhanced_ac.airspace.zone].covers

\* C22: when a tick returns, every aircraft of its snapshot that has a hex was
\* handed to store_aircraft_contact exactly once during the tick.
C22_EachHexHandedOnce ==
    Served =>
        \A k \in 1..Len(response.data) :
            ~NoHex(response.data[k]) =>
                Cardinality({j \in 1..Len(response.handed) : response.handed[j].i = k}) = 1

\* C23: a record handed to store_aircraft_contact carries the airspace, the
\* ssr data, the registry fields and the status (phase, ATC, intention) of
\* its tick: the four enrichment steps ran before the hand-off.
C23_HandedAfterEnrichment ==
    \A t \in Servers : \A j \in 1..Len(tick[t].handed) :
        {"airspace", "ssr", "enhanced", "status"} \subseteq tick[t].handed[j].keys

\* the record a round in which nothing raises appends for an aircraft
Enriched(aircraft) ==
    BasestationBlock(SsrBlock(AirspaceBlock(aircraft, aircraft, "none"),
                              aircraft, "none"),
                     aircraft, "none")

\* C24: a tick in one of whose rounds the airspace lookup, the SSR lookup, the
\* registry lookup or the store failed still returns one record per aircraft
\* of the snapshot, in order; the records of the other rounds are fully
\* enriched, and the record of the failing round has the field of the failed
\* step null (airspace, ssr) or absent (registration), the rest as usual.
C24_FailureStaysInItsRound ==
    Served =>
        /\ Len(response.aircraft) = Len(response.data)
        /\ \A k \in 1..Len(response.data) :
             LET aircraft == response.data[k]
                 enhanced_ac == response.aircraft[k]
                 fail == response.failed[k]
             IN /\ \A key \in DOMAIN aircraft :
                     key \in DOMAIN enhanced_ac /\ enhanced_ac[key] = aircraft[key]
                /\ fail \in {"none", "store"} => enhanced_ac = Enriched(aircraft)
                /\ fail = "airspace" =>
                     /\ enhanced_ac.airspace = None
                     /\ enhanced_ac.ssr = Enriched(aircraft).ssr
                /\ fail = "ssr" =>
                     /\ enhanced_ac.ssr = None
                     /\ "hex" \in DOMAIN aircraft =>
                          enhanced_ac.enhanced = Enriched(aircraft).enhanced
                /\ fail = "registry" =>
                     /\ "registration" \notin DOMAIN enhanced_ac
                     /\ enhanced_ac.enhanced = FALSE
                     /\ enhanced_ac.ssr = Enriched(aircraft).ssr

\* C24 witness: a tick over two aircraft returned; the SSR lookup raised for
\* the first, which is returned with ssr null and its registration, and the
\* second is returned with its ssr data.
C24_Witness ==
    /\ Served
    /\ Len(response.data) = 2
    /\ response.failed = <<"ssr", "none">>
    /\ "hex" \in DOMAIN response.data[1] /\ response.data[1].hex = "A"
    /\ response.aircraft[1].ssr = None
    /\ response.aircraft[1].registration = "G-AAAA"
    /\ response.aircraft[2].ssr.description = "Unknown SSR code"

\* C30: a call of store_aircraft_contact with a record that has no hex (the
\* key is missing or its value is the empty string) returns False and leaves
\* contacts, summaries and events as they were; so no row, summary or event
\* ever has an empty hex.
C30_NoHexFailsFast ==
    /\ [](/\ \A i \in 1..Len(contacts) : contacts[i].hex # ""
          /\ "" \notin DOMAIN summary
          /\ \A i \in 1..Len(events) : events[i].hex # "")
    /\ [][(last'.op = "store" /\ last'.stage = "hex") =>
             /\ ~last'.ok
             /\ UNCHANGED <<contacts, summary, events, nextId>>]_vars

\* C30 witness: the store holds two contacts and an event, and the last call,
\* made with a record without hex, returned False.
C30_Witness ==
    /\ last.op = "store" /\ last.stage = "hex" /\ ~last.ok
    /\ Len(contacts) = 2
    /\ events # <<>>

\* the ids of the NOTAMs of a list
IdsOf(notams) == {notams[k].id : k \in 1..Len(notams)}

\* C25: the location filter returns exactly the NOTAMs whose coordinates lie
\* within the requested radius and the NOTAMs of priority CRITICAL, the latter
\* wherever they are, also with coordinates outside the radius.
C25_WithinRadiusOrCritical ==
    (notamOut.op = "notams" /\ notamOut.priority = "ALL") =>
        IdsOf(notamOut.notams) =
            {n.id : n \in {m \in {notamOut.all_notams[k] : k \in 1..Len(notamOut.all_notams)} :
                \/ /\ Has(m, "coordinates")
                   /\ DistanceNm(m.coordinates, 0, 0) <= notamOut.range_nm
                \/ Has(m, "priority") /\ m.priority = "CRITICAL"}}

\* C26: a request made before the expiry set by the last successful fetch,
\* whatever list that fetch returned, is answered from the cache without
\* contacting the archive; a request made at or after the expiry contacts it.
C26_CachedForThirtyMinutes ==
    notamOut.op = "notams" =>
        /\ notamOut.within =>
             /\ ~notamOut.contacted
             /\ notamOut.all_notams = notam_cache.data.list
        /\ ~notamOut.within => notamOut.contacted

\* C27: a request whose fetch from the archive failed is answered with the
\* list of the last successful fetch, which stays in the cache; it is answered
\* with the empty list only if there was no successful fetch before.
C27_FallbackToLastKnown ==
    (notamOut.op = "notams" /\ notamOut.failed) =>
        notamOut.all_notams =
            IF notam_cache.data = None THEN <<>> ELSE notam_cache.data.list

\* the threads that are inside the store
Inside == {t \in Callers : ops[t].pc = "inside"}

StoredByTicks ==
    UNION {{[row |-> tick[t].handed[j].row,
             hex |-> tick[t].data[tick[t].handed[j].i].hex,
             observed |-> tick[t].observed] :
               j \in {k \in 1..Len(tick[t].handed) : tick[t].handed[k].ok}} :
           t \in {u \in Servers : tick[u].pc = "loop"}}

\* C29: of two contacts of one hex, the one stored later was not observed
\* earlier; so the tail the event detector read when the later one was stored
\* (the rows of the hex less than 300 s older) holds no contact observed after it.
C29_StoredInObservationOrder ==
    \A e, f \in StoredByTicks :
        (/\ e.hex = f.hex
         /\ e.row < f.row
         /\ contacts[e.row].timestamp > contacts[f.row].timestamp - 300)
            => e.observed <= f.observed

-----------------------------------------------------------------------------
\* the phase decision table of the specification, row by row: the condition of
\* each row for one input, and the phase it names (in the spelling of the code)
InCTR(airspace) == InControlZone(airspace)

InTMA(airspace) == InTerminalArea(airspace)

TableHead(alt, gs, vrate, airspace) ==
    << <<alt < 100 /\ gs < 5, "PARKED">>,
       <<alt < 100 /\ gs < 25, "TAXIING">>,
       <<alt < 100 /\ gs < 50, "GROUND OPS">>,
       <<InCTR(airspace) /\ alt < 3000 /\ vrate > 800, "DEPARTURE">>,
       <<InCTR(airspace) /\ alt < 3000 /\ vrate < -800, "FINAL APPROACH">>,
       <<InCTR(airspace) /\ alt < 3000 /\ gs < 200, "AIRPORT PATTERN">>,
       <<InCTR(airspace) /\ alt < 3000, "TERMINAL AREA">>,
       <<InTMA(airspace) /\ vrate > 1000, "TERMINAL CLIMB">>,
       <<InTMA(airspace) /\ vrate < -1000, "TERMINAL DESCENT">>,
       <<InTMA(airspace) /\ alt < 10000, "TERMINAL AREA">>,
       <<alt < 3000 /\ vrate > 500, "TAKEOFF">>,
       <<alt < 3000 /\ vrate < -500, "APPROACH">> >>

TableVertical(alt, gs, vrate, airspace) ==
    << <<vrate > 1500, "RAPID CLIMB">>,
       <<vrate < -1500, "RAPID DESCENT">>,
       <<vrate > 800, "CLIMBING">>,
       <<vrate < -800, "DESCENDING">>,
       <<vrate > 300, "SLOW CLIMB">>,
       <<vrate < -300, "SLOW DESCENT">>,
       <<alt > 35000, "HIGH CRUISE">>,
       <<alt > 20000, "CRUISE">>,
       <<alt > 10000, "MEDIUM LEVEL">> >>

\* the rows the function has and the table lacks
TableLow(alt, gs, vrate, airspace) ==
    << <<alt < 3000 /\ gs < 200, "PATTERN">>,
       <<alt < 3000, "LOW LEVEL">> >>

TableSpeed(alt, gs, vrate, airspace) ==
    << <<gs > 400, "HIGH SPEED">>,
       <<gs > 250, "ENROUTE">>,
       <<gs > 150, "APPROACH SPEED">> >>

TableDefault == << <<TRUE, "IN FLIGHT">> >>

\* first matching row wins
FirstMatch(rows) ==
    rows[CHOOSE i \in 1..Len(rows) : rows[i][1] /\ \A j \in 1..(i - 1) : ~rows[j][1]][2]

DecisionTable(alt, gs, vrate, airspace) ==
    FirstMatch(TableHead(alt, gs, vrate, airspace) \o TableVertical(alt, gs, vrate, airspace)
               \o TableDefault)

ExtendedTable(alt, gs, vrate, airspace) ==
    FirstMatch(TableHead(alt, gs, vrate, airspace) \o TableLow(alt, gs, vrate, airspace)
               \o TableVertical(alt, gs, vrate, airspace)
               \o TableSpeed(alt, gs, vrate, airspace) \o TableDefault)

Analyzed == derived.op = "analyze_flight_phase"

Repaired == derived.op = "validate_aircraft_data"

\* the two rules of the consistency repair, read of one record
SpeedOf(aircraft) == Get(aircraft, "speed", 0)

AltitudeOf(aircraft) == Get(aircraft, "altitude", 0)

StatusOf(aircraft) == Get(aircraft, "status", <<>>)

MovingButParked(aircraft) == SpeedOf(aircraft) > 10 /\ StatusOf(aircraft) = PARKED

GroundedButCruise(aircraft) ==
    SpeedOf(aircraft) < 5 /\ AltitudeOf(aircraft) < 100 /\ StatusOf(aircraft) = CRUISE

Labelled(aircraft, word) == Contains(Lower(word), Lower(StatusOf(aircraft)))

MovingButLabelledParked(aircraft) == SpeedOf(aircraft) > 10 /\ Labelled(aircraft, PARKED)

GroundedButLabelledCruise(aircraft) ==
    SpeedOf(aircraft) < 5 /\ AltitudeOf(aircraft) < 100 /\ Labelled(aircraft, CRUISE)

DecodeErrorStep(i) ==
    /\ cons[i].pc = "listen"
    /\ aisOut'.op = "decode_error" /\ aisOut'.consumer = i
    /\ aisOut' # aisOut \/ (~cons[i].skipped /\ cons'[i].skipped)

\* C33: a frame that fails JSON decoding is skipped without disconnecting: the
\* consumer stays in the receive loop of the same connection, the retry counter
\* and the vessel map are unchanged, and so is running
C33_DecodeErrorIsSkipped ==
    [][\A i \in 1..Len(cons) :
        DecodeErrorStep(i) =>
            /\ cons'[i].pc = "listen"
            /\ cons'[i].retry_count = cons[i].retry_count
            /\ vessels' = vessels
            /\ running' = running]_vars

\* a message was merged on a connection that had skipped a frame before
C33_Witness ==
    /\ Len(cons) >= 1
    /\ cons[1].pc = "listen" /\ cons[1].skipped
    /\ aisOut.op = "message"
    /\ Len(vessels) = 1 /\ "name" \in DOMAIN vessels[1] /\ "lat" \notin DOMAIN vessels[1]

\* the consumers that hold a connection and merge what arrives on it
Listening == {i \in 1..Len(cons) : cons[i].pc = "listen"}

\* C37: at most one AIS consumer is connected and merging at any time
C37_AtMostOneConsumer == Cardinality(Listening) <= 1

\* C36: once stop_connection has been called the consumer terminates, whether
\* or not another frame arrives
C36_StoppedConsumerTerminates ==
    [](aisOut.op = "stop" /\ Len(cons) >= 1 => <>(Len(cons) >= 1 /\ cons[1].pc = "done"))

\* C32: a consumer that attempts to connect after a failure has waited
\* min(2^attempt, 60) seconds since that failure, attempt being the number of
\* consecutive failures, and never more than 60
C32_WaitsBeforeNextAttempt ==
    \A i \in 1..Len(cons) :
        cons[i].pc = "connect" /\ cons[i].sinceConnect > 0 =>
            /\ cons[i].wait_time = Min(2 ^ cons[i].sinceConnect, 60)
            /\ cons[i].wait_time <= 60

\* a record a request returned, without the distance the request added
Returned(copy) == [f \in DOMAIN copy \ {"distance_nm"} |-> copy[f]]

\* C35: a request for the vessels in range that runs while the consumer merges
\* completes with a result, and each record it returns is a record the map held
\* between two messages: it reflects every message entirely or not at all
C35_ReaderSeesWholeMessages ==
    /\ scan.reader.pc # "raised"
    /\ scan.reader.pc \in {"loop", "done"} =>
        \A j \in 1..Len(scan.reader.out) : Returned(scan.reader.out[j]) \in scan.versions

\* C34: in the pair a rebuild cycle has published, the metadata text at every
\* position is the summary whose vector the index holds at that position
C34_MetadataAlignedWithVectors ==
    /\ Len(published.metadata) = Len(published.index)
    /\ \A i \in 1..Len(published.metadata) : published.metadata[i] = published.index[i]

\* C38: for every hex that has a summary, the summary's contact count is the
\* number of contact rows the store holds for that hex
C38_CountEqualsRows ==
    \A h \in DOMAIN summary : summary[h].total_contacts = Cardinality(ContactsOf(h))

\* the altitudes the contacts of hex h reported
ReportedAltitudes(h) == {contacts[i].alt_baro : i \in ContactsOf(h)} \ {NullAlt}

\* no contact row has been deleted: the rows are all the contacts ever stored
NothingDeleted == Len(contacts) = nextId - 1

\* C39: after store_contact calls only, the minimum and maximum altitude of a
\* summary are the minimum and maximum of the altitudes its hex's contacts
\* reported; contacts without an altitude count for neither
C39_BoundsOfReportedAltitudes ==
    NothingDeleted =>
        \A h \in DOMAIN summary :
            ReportedAltitudes(h) # {} =>
                /\ summary[h].min_altitude = SetMin(ReportedAltitudes(h))
                /\ summary[h].max_altitude = SetMax(ReportedAltitudes(h))

====
